---- MODULE Spec2Model ----
(***************************************************************************)
(* A model of the mission manager node (src/node/mission_manager_node.py): *)
(* the MissionManagerCore object, the SMACH state machine built in main(), *)
(* and the callbacks (command, piloting mode, reconfigure, action clients) *)
(* that run on other threads between the steps of the state machine.       *)
(*                                                                         *)
(* Tasks are Python dicts held by reference: the model keeps them in a     *)
(* heap indexed by identifiers, tasks is the list of identifiers, and      *)
(* current_task / saved_task are identifiers (None is 0).  A dict no       *)
(* variable refers to any more is collected (Collect).                     *)
(*                                                                         *)
(* A latitude/longitude pair is a record; two points are within            *)
(* waypoint_threshold of each other exactly when they are the same point.  *)
(* A command string is the sequence of its whitespace-separated tokens;    *)
(* the JSON text of a mission_plan command is carried beside the tokens.   *)
(*                                                                         *)
(* execute() of a SMACH state is one step up to its loop; a loop is two    *)
(* steps per turn, iterate() and what follows its sleep, so that callbacks *)
(* run during the sleep.  The operator (command messages, reconfigure      *)
(* requests, shutdown) acts at most budget times in a run; mode changes,   *)
(* odometry and the action servers' results are not bounded.               *)
(***************************************************************************)
EXTENDS Integers, Sequences, FiniteSets, TLC

VARIABLES
    piloting_mode,      \* MissionManagerCore.piloting_mode
    tasks,              \* MissionManagerCore.tasks: sequence of heap ids
    heap,               \* the task dicts, by identifier
    current_task,       \* MissionManagerCore.current_task: heap id or None
    saved_task,         \* MissionManagerCore.saved_task: heap id or None
    override_task,      \* MissionManagerCore.override_task: a dict or NoTask
    pending_command,    \* MissionManagerCore.pending_command: tokens or NoCmd
    planner,            \* MissionManagerCore.planner
    done_behavior,      \* MissionManagerCore.done_behavior
    position,           \* robot_nav.positionLatLon(): a point or NoFix
    shutdown,           \* rospy.is_shutdown()
    state,              \* the active SMACH state
    phase,              \* where the active state's execute() stands
    fp_task,            \* FollowPath.execute's local variable task
    task_complete,      \* FollowPath.task_complete
    sa_task_complete,   \* SurveyArea.task_complete
    goals,              \* per action client: is a goal sent and not finished/cancelled
    endofline,          \* the last word published on project11/endofline
    status,             \* the status the done callback got for the goal last sent
    budget              \* how many operator requests are still to come

vars == <<piloting_mode, tasks, heap, current_task, saved_task, override_task,
          pending_command, planner, done_behavior, position, shutdown, state,
          phase, fp_task, task_complete, sa_task_complete, goals,
          endofline, status, budget>>

(***************************************************************************)
(* Bounds of the model.                                                    *)
(***************************************************************************)
\* The longest task list, and the number of operator requests in a run.
MaxTasks == 2
MaxRequests == 2

(***************************************************************************)
(* Values.                                                                 *)
(***************************************************************************)
None == 0
NoneIdx == -1
lineup_distance == 25
\* 0.514444, in millionths
KnotsToMps == 514444
\* config['default_speed'], in millionths of a m/s
DefaultSpeed == 1000000

Ids == 1..(MaxTasks + 2)

Point(lat, lon) == [latitude |-> lat, longitude |-> lon]
NoFix == Point(0, 0)
\* project11.geodesic.direct(start, heading+180, lineup_distance): the point
\* lineup_distance behind p
PreStart(p) == Point(p.latitude + lineup_distance, p.longitude)

\* An optional path: the key is absent, its value is None, or it is a list.
AbsentPath == [k |-> "absent", v |-> <<>>]
NonePath == [k |-> "none", v |-> <<>>]
SomePath(p) == [k |-> "some", v |-> p]

NoCmd == <<>>

\* Nothing is published on project11/endofline yet.
NoWord == "none"

\* actionlib GoalStatus values a done callback is called with; NoStatus: no result yet.
Statuses == {"SUCCEEDED", "ABORTED"}
NoStatus == "none"

\* A task dict.  Keys a task type does not carry hold a filler value.
NoTask ==
    [type |-> "none", latitude |-> 0, longitude |-> 0, path |-> AbsentPath,
     nav_objectives |-> <<>>, default_speed |-> 0, do_transit |-> FALSE,
     current_nav_objective_index |-> NoneIdx, current_path |-> AbsentPath,
     transit_path |-> AbsentPath]

(***************************************************************************)
(* parseLatLong: args is the token sequence of the string.                 *)
(***************************************************************************)
FloatOf(tok) ==
    CASE tok = "1" -> 1
      [] tok = "2" -> 2
      [] tok = "3" -> 3
      [] OTHER -> None

IsFloat(tok) == tok \in {"1", "2", "3"}

parseLatLong(args) ==
    IF Len(args) = 2 /\ IsFloat(args[1]) /\ IsFloat(args[2])
    THEN [NoTask EXCEPT !.type = "latlon",
                        !.latitude = FloatOf(args[1]),
                        !.longitude = FloatOf(args[2])]
    ELSE NoTask

(***************************************************************************)
(* Mission items (the parsed JSON) and parseMission.                       *)
(***************************************************************************)
Item(type, speed, waypoints, children) ==
    [type |-> type, speed |-> speed, waypoints |-> waypoints, children |-> children]

Waypoint(p) == Item("Waypoint", 0, <<p>>, <<>>)
TrackLine(w) == Item("TrackLine", 0, w, <<>>)
SurveyPattern(ch) == Item("SurveyPattern", 0, <<>>, ch)
SurveyAreaItem(ch) == Item("SurveyArea", 0, <<>>, ch)
Group(ch) == Item("Group", 0, <<>>, ch)
Platform(knots) == Item("Platform", knots, <<>>, <<>>)

\* A faulty NewMissionPlan, which takes the default speed whatever the
\* Platform items said.
NewMissionPlanAtDefaultSpeed(speed) ==
    [NoTask EXCEPT !.type = "mission_plan",
                   !.nav_objectives = <<>>,
                   !.default_speed = DefaultSpeed,
                   !.do_transit = TRUE,
                   !.current_nav_objective_index = 0]

NewMissionPlan(speed) ==
    [NoTask EXCEPT !.type = "mission_plan",
                   !.nav_objectives = <<>>,
                   !.default_speed = speed,
                   !.do_transit = TRUE,
                   !.current_nav_objective_index = 0]

AllWaypoints(children) == \A i \in 1..Len(children) : children[i].type = "Waypoint"

RECURSIVE parseMission(_, _)
RECURSIVE parseItems(_, _, _, _)
parseItems(plan, i, speed, ret) ==
    IF i > Len(plan) THEN ret
    ELSE
      LET item == plan[i]
          speed1 == IF item.type = "Platform" THEN item.speed * KnotsToMps ELSE speed
          fresh == NewMissionPlan(speed1)
          ret1 ==
            CASE item.type = "SurveyPattern" ->
                   Append(ret, [fresh EXCEPT !.nav_objectives = item.children])
              [] item.type = "TrackLine" ->
                   Append(ret, [fresh EXCEPT !.nav_objectives = <<item>>])
              [] item.type = "SurveyArea" ->
                   IF AllWaypoints(item.children)
                   THEN Append(ret, [fresh EXCEPT !.nav_objectives = <<item>>])
                   ELSE ret \o parseMission(item.children, speed1)
              [] item.type = "Group" ->
                   ret \o parseMission(item.children, speed1)
              [] OTHER -> ret
      IN parseItems(plan, i + 1, speed1, ret1)

\* A faulty parseMission, which does not look into the Groups.
parseMissionSkippingGroups(plan, default_speed) ==
    parseItems(SelectSeq(plan, LAMBDA item : item.type # "Group"), 1, default_speed, <<>>)

parseMission(plan, default_speed) == parseItems(plan, 1, default_speed, <<>>)

(***************************************************************************)
(* MissionManagerCore: the task accounting attributes as one record, so    *)
(* that the methods compose the way the code calls them.                   *)
(***************************************************************************)
Core ==
    [tasks |-> tasks, heap |-> heap, current_task |-> current_task,
     saved_task |-> saved_task, override_task |-> override_task,
     pending_command |-> pending_command]

Range(s) == {s[i] : i \in 1..Len(s)}
Min(S) == CHOOSE x \in S : \A y \in S : x <= y

\* The dicts some attribute of the core still refers to.
Refs(c) == (Range(c.tasks) \cup {c.current_task, c.saved_task}) \ {None}

\* Python frees a dict nothing refers to.
Collect(c) ==
    [c EXCEPT !.heap = [i \in Ids |-> IF i \in Refs(c) THEN c.heap[i] ELSE NoTask]]

\* A new dict: the smallest identifier nothing refers to.
NewId(c) == IF Ids \ Refs(c) = {} THEN None ELSE Min(Ids \ Refs(c))

\* What a method returns to its caller: the core, and whether it raised.
Ok(c) == [core |-> c, raised |-> FALSE]
Raise(c) == [core |-> c, raised |-> TRUE]

\* A faulty clearTasks, which leaves saved_task alone.
clearTasksKeepingSaved(c) ==
    [c EXCEPT !.tasks = <<>>, !.current_task = None]

\* A faulty clearTasks, which forgets self.tasks = [].
clearTasksKeepingTasks(c) ==
    [c EXCEPT !.current_task = None, !.saved_task = None]

\* A faulty clearTasks, which drops the first task only: self.tasks[1:].
clearTasksDroppingOne(c) ==
    [c EXCEPT !.tasks = IF Len(@) > 0 THEN Tail(@) ELSE @,
              !.current_task = None, !.saved_task = None]

\* A faulty clearTasks, which leaves current_task alone.
clearTasksKeepingCurrent(c) ==
    [c EXCEPT !.tasks = <<>>, !.saved_task = None]

clearTasks(c) ==
    [c EXCEPT !.tasks = <<>>, !.current_task = None, !.saved_task = None]

\* A faulty append: self.tasks = task_list.
ExtendReplacing(c, task_list, i) ==
    LET id == NewId([c EXCEPT !.tasks = <<>>])
    IN IF Len(task_list) = 0 THEN [c EXCEPT !.tasks = <<>>]
       ELSE [c EXCEPT !.heap[id] = task_list[1], !.tasks = <<id>>]

RECURSIVE Extend(_, _, _)
\* self.tasks += task_list
Extend(c, task_list, i) ==
    IF i > Len(task_list) THEN c
    ELSE LET id == NewId(c)
         IN IF id = None THEN [c EXCEPT !.tasks = @ \o SubSeq(task_list, i, Len(task_list))]
            ELSE Extend([c EXCEPT !.heap[id] = task_list[i], !.tasks = Append(@, id)],
                        task_list, i + 1)

\* addTask(args, prepend): args is the token sequence after the verb (empty:
\* None); json is the parsed text after "mission_plan" when it is well-formed.
addTask(c, args, json, prepend, default_speed) ==
    IF Len(args) = 0 THEN Raise(c)                \* None.split: AttributeError
    ELSE IF Len(args) < 2 THEN Ok(c)              \* len(parts) != 2
    ELSE
      LET task_type == args[1]
          badjson == task_type = "mission_plan" /\ Tail(args) # <<"<json>">>
          latlon == IF task_type \in {"goto", "hover"} THEN parseLatLong(args) ELSE NoTask
          task == IF latlon # NoTask THEN [latlon EXCEPT !.type = task_type] ELSE NoTask
          task_list ==
            CASE task_type = "mission_plan" /\ ~badjson -> parseMission(json, default_speed)
              [] task # NoTask -> <<task>>
              [] OTHER -> <<>>
      IN IF badjson THEN Raise(c)                 \* json.loads: ValueError
         ELSE IF task # NoTask \/ Len(task_list) > 0
              THEN IF prepend
                   THEN Raise(c)                  \* self.task: AttributeError
                   ELSE Ok(Extend(c, task_list, 1))
              ELSE Ok(c)

setOverride(c, task) ==
    [c EXCEPT !.override_task = task, !.pending_command = <<"do_override">>]

PendingVerbs ==
    {"next_task", "prev_task", "goto_task", "goto_line", "start_line", "restart_mission"}

\* commandCallback(msg): msg.data is the token sequence msg.tokens.  An
\* exception ends the callback where it is raised; rospy logs it.
commandCallback(c, msg, default_speed) ==
    IF Len(msg.tokens) = 0 THEN c                 \* parts[0]: IndexError
    ELSE
      LET cmd == msg.tokens[1]
          args == Tail(msg.tokens)
      IN CASE cmd = "replace_task" ->
                LET r == addTask(clearTasks(c), args, msg.json, FALSE, default_speed)
                IN IF r.raised THEN r.core
                   ELSE [r.core EXCEPT !.pending_command = <<"next_task">>]
           [] cmd = "append_task" ->
                addTask(c, args, msg.json, FALSE, default_speed).core
           [] cmd = "prepend_task" ->
                addTask(c, args, msg.json, TRUE, default_speed).core
           [] cmd = "clear_tasks" -> clearTasks(c)
           [] cmd \in PendingVerbs -> [c EXCEPT !.pending_command = msg.tokens]
           [] cmd = "override" ->
                IF Len(args) < 2 THEN c           \* None.split raises, or len(parts) != 2
                ELSE LET task_type == args[1]
                         latlon == IF task_type \in {"goto", "hover"}
                                   THEN parseLatLong(Tail(args)) ELSE NoTask
                     IN IF latlon # NoTask
                        THEN setOverride(c, [latlon EXCEPT !.type = task_type])
                        ELSE c
           [] OTHER -> c

IsInt(tok) == tok \in {"-1", "0", "1", "2", "3"}
IntOf(tok) == IF tok = "-1" THEN -1 ELSE IF tok = "0" THEN 0 ELSE FloatOf(tok)

\* self.tasks.index(self.current_task): list.index compares with ==, and
\* dicts are equal when their contents are.  0 stands for ValueError.
index(c) ==
    LET found == {i \in 1..Len(c.tasks) : c.heap[c.tasks[i]] = c.heap[c.current_task]}
    IN IF found = {} THEN 0 ELSE Min(found)

IsMissionPlan(c, id) == id # None /\ c.heap[id].type = "mission_plan"

\* nextTask, the branch for next_task / prev_task (lines 638-674).
stepTask(c, behavior, pos) ==
    IF ~(c.pending_command \in {<<"next_task">>, <<"prev_task">>} /\ Len(c.tasks) > 0)
    THEN Ok(c)
    ELSE
      LET next == c.pending_command = <<"next_task">>
          i == index(c)
          j == IF next THEN i + 1 ELSE i - 1
          moved ==
            IF c.current_task = None
            THEN IF next THEN c.tasks[1] ELSE c.tasks[Len(c.tasks)]
            ELSE IF i = 0 \/ j > Len(c.tasks) \/ j < 1 THEN None ELSE c.tasks[j]
          c1 == [c EXCEPT !.current_task = moved]
          hid == NewId(c1)
          r2 ==
            IF c.current_task = None \/ moved # None THEN Ok(c1)
            ELSE IF behavior = "restart" THEN Ok([c1 EXCEPT !.current_task = c.tasks[1]])
            ELSE IF behavior = "hover"
                 THEN IF pos = NoFix
                      THEN Raise([c1 EXCEPT !.current_task = hid,
                                            !.heap[hid] = [NoTask EXCEPT !.type = "hover"]])
                      ELSE Ok([c1 EXCEPT !.current_task = hid,
                                         !.heap[hid] = [NoTask EXCEPT !.type = "hover",
                                                          !.latitude = pos.latitude,
                                                          !.longitude = pos.longitude]])
                 ELSE Ok(c1)
          c2 == r2.core
      IN IF r2.raised THEN r2
         ELSE IF IsMissionPlan(c2, c2.current_task)
              THEN Ok([c2 EXCEPT !.heap[c2.current_task].current_nav_objective_index = NoneIdx,
                                 !.heap[c2.current_task].current_path = NonePath])
              ELSE Ok(c2)

\* A faulty gotoLine, which does not compare line_no with the number of
\* objectives.
gotoLineUnchecked(c) ==
    IF ~(IsMissionPlan(c, c.current_task) /\ c.pending_command # NoCmd
           /\ c.pending_command[1] \in {"goto_line", "start_line"})
    THEN Ok(c)
    ELSE IF Len(c.pending_command) < 2 THEN Ok(c)
    ELSE IF ~(Len(c.pending_command) = 2 /\ IsInt(c.pending_command[2]))
         THEN Raise(c)
    ELSE
      LET cmd == c.pending_command[1]
          line_no == IntOf(c.pending_command[2])
          t == c.current_task
      IN IF line_no >= 0
         THEN Ok([c EXCEPT !.heap[t].current_nav_objective_index = line_no,
                           !.heap[t].current_path = NonePath,
                           !.heap[t].do_transit = (cmd = "start_line")])
         ELSE Ok(c)

\* nextTask, the branch for goto_line / start_line (lines 677-692).
gotoLine(c) ==
    IF ~(IsMissionPlan(c, c.current_task) /\ c.pending_command # NoCmd
           /\ c.pending_command[1] \in {"goto_line", "start_line"})
    THEN Ok(c)
    ELSE IF Len(c.pending_command) < 2 THEN Ok(c)
    ELSE IF ~(Len(c.pending_command) = 2 /\ IsInt(c.pending_command[2]))
         THEN Raise(c)                            \* int(parts[1]): ValueError
    ELSE
      LET cmd == c.pending_command[1]
          line_no == IntOf(c.pending_command[2])
          t == c.current_task
      IN IF line_no >= 0 /\ line_no < Len(c.heap[t].nav_objectives)
         THEN Ok([c EXCEPT !.heap[t].current_nav_objective_index = line_no,
                           !.heap[t].current_path = NonePath,
                           !.heap[t].do_transit = (cmd = "start_line")])
         ELSE Ok(c)

\* nextTask, the branch for restart_mission (lines 631-636).
restartMission(c) ==
    IF c.pending_command = <<"restart_mission">> /\ Len(c.tasks) > 0
    THEN [c EXCEPT !.heap = [id \in Ids |->
                       IF id \in Range(c.tasks) /\ c.heap[id].type = "mission_plan"
                       THEN [c.heap[id] EXCEPT !.current_nav_objective_index = NoneIdx,
                                               !.current_path = NonePath]
                       ELSE c.heap[id]],
                   !.current_task = c.tasks[1]]
    ELSE c

\* A faulty dismissal, which lacks self.override_task = None.
dismissOverrideKeepingOverride(c) ==
    IF c.override_task # NoTask
    THEN [c EXCEPT !.current_task =
                      IF c.saved_task = None /\ Len(c.tasks) > 0
                      THEN c.tasks[1] ELSE c.saved_task]
    ELSE c

\* A faulty dismissal, which drops the override and restores nothing.
dismissOverrideKeepingCurrent(c) ==
    IF c.override_task # NoTask
    THEN [c EXCEPT !.override_task = NoTask]
    ELSE c

\* nextTask, the dismissal of an override (lines 622-626).
dismissOverride(c) ==
    IF c.override_task # NoTask
    THEN [c EXCEPT !.current_task =
                      IF c.saved_task = None /\ Len(c.tasks) > 0
                      THEN c.tasks[1] ELSE c.saved_task,
                   !.override_task = NoTask]
    ELSE c

\* A faulty doOverride, which leaves the plan's current_path in place.
doOverrideKeepingPath(c) ==
    [c EXCEPT !.saved_task = c.current_task, !.pending_command = NoCmd]

\* nextTask, the branch for do_override (lines 614-620).
doOverride(c) ==
    LET c1 == IF IsMissionPlan(c, c.current_task)
              THEN [c EXCEPT !.heap[c.current_task].current_path = NonePath]
              ELSE c
    IN [c1 EXCEPT !.saved_task = c.current_task, !.pending_command = NoCmd]

\* A faulty nextTask, which lacks the final self.pending_command = None.
nextTaskKeepingPending(c, behavior, pos) ==
    IF c.pending_command = <<"do_override">> THEN Ok(doOverride(c))
    ELSE
      LET c1 == dismissOverride(c)
      IN IF c.override_task # NoTask /\ c.pending_command = <<"next_task">>
         THEN Ok([c1 EXCEPT !.pending_command = NoCmd])
         ELSE
           LET r3 == stepTask(restartMission(c1), behavior, pos)
               r4 == gotoLine(r3.core)
           IN IF r3.raised THEN r3 ELSE r4

nextTask(c, behavior, pos) ==
    IF c.pending_command = <<"do_override">> THEN Ok(doOverride(c))
    ELSE
      LET c1 == dismissOverride(c)
      IN IF c.override_task # NoTask /\ c.pending_command = <<"next_task">>
         THEN Ok([c1 EXCEPT !.pending_command = NoCmd])
         ELSE
           LET r3 == stepTask(restartMission(c1), behavior, pos)
               r4 == gotoLine(r3.core)
           IN IF r3.raised THEN r3
              ELSE IF r4.raised THEN r4
              ELSE Ok([r4.core EXCEPT !.pending_command = NoCmd])

\* A faulty getCurrentTask, which does not look at the override.
getCurrentTaskIgnoringOverride(c) ==
    IF c.current_task # None THEN c.heap[c.current_task] ELSE NoTask

getCurrentTask(c) ==
    IF c.override_task # NoTask THEN c.override_task
    ELSE IF c.current_task # None THEN c.heap[c.current_task]
    ELSE NoTask

(***************************************************************************)
(* The inputs the environment draws from.                                  *)
(***************************************************************************)
L1 == Point(1, 1)
L2 == Point(1, 2)
Locs == {L1, L2}

\* The JSON documents of mission_plan commands.
DocPattern == <<SurveyPattern(<<TrackLine(<<L1, L2>>), TrackLine(<<L2, L1>>)>>)>>
DocArea == <<SurveyAreaItem(<<Waypoint(L1), Waypoint(L2), Waypoint(L1)>>)>>
DocEmptyPattern == <<SurveyPattern(<<>>)>>
Docs == {DocPattern, DocArea, DocEmptyPattern}

Msg(tokens, json) == [tokens |-> tokens, json |-> json]

TaskMessages ==
    {Msg(<<verb, "mission_plan", "<json>">>, d) :
        verb \in {"replace_task", "append_task"}, d \in Docs}
    \cup {Msg(<<verb, "goto", "1", "1">>, <<>>) : verb \in {"replace_task", "append_task"}}
    \cup {Msg(<<"prepend_task", "mission_plan", "<json>">>, DocPattern),
          Msg(<<"append_task", "hover", "1", "2">>, <<>>),
          Msg(<<"append_task", "mission_plan", "{">>, <<>>),
          Msg(<<"append_task", "goto">>, <<>>),
          Msg(<<"append_task">>, <<>>),
          Msg(<<"replace_task", "goto">>, <<>>),
          Msg(<<"prepend_task", "goto">>, <<>>)}

PendingMessages ==
    {Msg(t, <<>>) : t \in {<<"next_task">>, <<"prev_task">>, <<"restart_mission">>,
                          <<"goto_task", "1">>, <<"goto_line", "1">>, <<"goto_line", "2">>,
                          <<"goto_line", "x">>, <<"start_line", "0">>}}

OverrideMessages ==
    {Msg(<<"override">> \o spec, <<>>) :
        spec \in {<<"goto", "1", "1">>, <<"hover", "1", "2">>, <<"goto", "x", "1">>, <<>>}}

OtherMessages == {Msg(<<"clear_tasks">>, <<>>), Msg(<<"dance">>, <<>>)}

Messages == TaskMessages \cup PendingMessages \cup OverrideMessages \cup OtherMessages

Clients == {"path_follower", "path_planner", "hover", "survey_area"}

(***************************************************************************)
(* Helpers of the state machine.                                           *)
(***************************************************************************)
\* The core's attributes after a method ran.
SetCore(c) ==
    LET g == Collect(c)
    IN /\ tasks' = g.tasks
       /\ heap' = g.heap
       /\ current_task' = g.current_task
       /\ saved_task' = g.saved_task
       /\ override_task' = g.override_task
       /\ pending_command' = g.pending_command

coreVars == <<tasks, heap, current_task, saved_task, override_task, pending_command>>
configVars == <<planner, done_behavior>>
envVars == <<piloting_mode, planner, done_behavior, position, shutdown, budget>>
followVars == <<fp_task, task_complete>>

\* The transitions main() registers: the state an outcome leads to.  An
\* outcome of a state of AUTONOMOUS with no transition is AUTONOMOUS's own.
Route(st, out) ==
    CASE st = "PAUSE" /\ out = "resume" -> "IDLE"
      [] st = "IDLE" /\ out = "do-task" -> "NEXTTASK"
      [] st = "NEXTTASK" /\ out = "idle" -> "IDLE"
      [] st = "NEXTTASK" /\ out = "mission_plan" -> "MISSIONPLAN"
      [] st = "NEXTTASK" /\ out = "hover" -> "HOVER"
      [] st = "NEXTTASK" /\ out = "goto" -> "GOTO"
      [] st = "HOVER" /\ out = "cancelled" -> "NEXTTASK"
      [] st = "HOVER" /\ out = "follow_path" -> "FOLLOWPATH"
      [] st = "MISSIONPLAN" /\ out = "done" -> "NEXTTASK"
      [] st = "MISSIONPLAN" /\ out = "follow_path" -> "FOLLOWPATH"
      [] st = "MISSIONPLAN" /\ out = "survey_area" -> "SURVEYAREA"
      [] st = "GOTO" /\ out \in {"done", "cancelled"} -> "NEXTTASK"
      [] st = "GOTO" /\ out = "follow_path" -> "FOLLOWPATH"
      [] st = "FOLLOWPATH" /\ out = "cancelled" -> "NEXTTASK"
      [] st = "FOLLOWPATH" /\ out = "done" -> "LINEENDED"
      [] st = "FOLLOWPATH" /\ out = "hover" -> "HOVER"
      [] st = "LINEENDED" /\ out = "mission_plan" -> "MISSIONPLAN"
      [] st = "LINEENDED" /\ out = "next_item" -> "NEXTTASK"
      [] st = "SURVEYAREA" /\ out \in {"cancelled", "done"} -> "NEXTTASK"
      [] out = "pause" -> "PAUSE"
      [] out = "exit" -> "exit"
      [] OTHER -> "aborted"

\* Where execute() of a state starts: Idle is its loop alone.
EntryPhase(st) == IF st = "IDLE" THEN "iterate" ELSE "execute"

\* The active state returns out.
Return(out) ==
    /\ state' = Route(state, out)
    /\ phase' = EntryPhase(Route(state, out))

\* The active state raises: smach aborts the state machine.
Abort == Return("raised")

\* The active state goes on to another point of its execute().
Continue(ph) == state' = state /\ phase' = ph

At(st, ph) == state = st /\ phase = ph

\* A faulty iterate, which does not look at the piloting mode.
iterateIgnoringMode ==
    IF shutdown THEN "exit"
    ELSE IF pending_command # NoCmd THEN "cancelled"
    ELSE "None"

\* A faulty iterate, which looks at the pending command before the mode.
iteratePendingFirst ==
    IF shutdown THEN "exit"
    ELSE IF pending_command # NoCmd THEN "cancelled"
    ELSE IF piloting_mode # "autonomous" THEN "pause"
    ELSE "None"

iterate ==
    IF shutdown THEN "exit"
    ELSE IF piloting_mode # "autonomous" THEN "pause"
    ELSE IF pending_command # NoCmd THEN "cancelled"
    ELSE "None"

waypointReached(lat, lon) == position # NoFix /\ position = Point(lat, lon)

\* generatePathFromVehicle(target): nothing when neither service answers.
PathsFromVehicle(target) == {<<>>, <<position, target>>}

\* task[...] = ... on the dict getCurrentTask() returned.
WriteCurrentTask(c, task) ==
    IF c.override_task # NoTask THEN [c EXCEPT !.override_task = task]
    ELSE [c EXCEPT !.heap[c.current_task] = task]

cancel_goal(g, client) == [g EXCEPT ![client] = FALSE]
send_goal(g, client) == [g EXCEPT ![client] = TRUE]

(***************************************************************************)
(* The initial state: MissionManagerCore.__init__, the state machine at    *)
(* its initial state PAUSE, the action clients without goals.              *)
(***************************************************************************)
Start(requests) ==
    /\ piloting_mode = "standby"
    /\ tasks = <<>>
    /\ heap = [i \in Ids |-> NoTask]
    /\ current_task = None
    /\ saved_task = None
    /\ override_task = NoTask
    /\ pending_command = NoCmd
    /\ planner = "path_follower"
    /\ done_behavior = "hover"
    /\ position = NoFix
    /\ shutdown = FALSE
    /\ state = "PAUSE"
    /\ phase = "execute"
    /\ fp_task = NoTask
    /\ task_complete = FALSE
    /\ sa_task_complete = FALSE
    /\ goals = [c \in Clients |-> FALSE]
    /\ endofline = NoWord
    /\ status = NoStatus
    /\ budget = requests

Init == Start(MaxRequests)

(***************************************************************************)
(* The states of the state machine.                                        *)
(***************************************************************************)
PauseExecute ==
    /\ At("PAUSE", "execute")
    /\ IF piloting_mode = "autonomous" THEN Return("resume")
       ELSE IF shutdown THEN Return("exit")
       ELSE Continue("execute")
    /\ UNCHANGED <<envVars, endofline, coreVars,
                   followVars, sa_task_complete, status, goals>>

IdleIterate ==
    /\ At("IDLE", "iterate")
    /\ IF iterate = "cancelled" THEN Return("do-task")
       ELSE IF iterate # "None" THEN Return(iterate)
       ELSE Continue("sleep")
    /\ UNCHANGED <<envVars, endofline, coreVars,
                   followVars, sa_task_complete, status, goals>>

IdlePost ==
    /\ At("IDLE", "sleep")
    /\ IF Len(tasks) # 0 THEN Return("do-task") ELSE Continue("iterate")
    /\ UNCHANGED <<envVars, endofline, coreVars,
                   followVars, sa_task_complete, status, goals>>

NextTaskExecute ==
    /\ At("NEXTTASK", "execute")
    /\ LET r == nextTask(Core, done_behavior, position)
           c == r.core
       IN /\ SetCore(c)
          /\ IF r.raised THEN Abort
             ELSE IF c.override_task # NoTask THEN Return(c.override_task.type)
             ELSE IF c.current_task # None THEN Return(c.heap[c.current_task].type)
             ELSE Return("idle")
    /\ UNCHANGED <<envVars, endofline,
                   followVars, sa_task_complete, status, goals>>

\* Hover.execute from the hover goal on (lines 934-947).
SendHoverGoal ==
    /\ UNCHANGED coreVars
    /\ \E up \in BOOLEAN :
         IF ~up THEN Return("cancelled") /\ UNCHANGED goals
         ELSE goals' = send_goal(goals, "hover") /\ Continue("iterate")

HoverExecute ==
    /\ At("HOVER", "execute")
    /\ LET task == getCurrentTask(Core)
       IN IF task = NoTask THEN Continue("iterate") /\ UNCHANGED <<coreVars, goals>>
          ELSE IF task.type \notin {"goto", "hover"}
               THEN Abort /\ UNCHANGED <<coreVars, goals>>      \* KeyError
          ELSE IF waypointReached(task.latitude, task.longitude) THEN SendHoverGoal
          ELSE IF position = NoFix
               THEN Abort /\ UNCHANGED <<coreVars, goals>>      \* p[0]: TypeError
          ELSE \E path \in PathsFromVehicle(Point(task.latitude, task.longitude)) :
                 IF Len(path) > 1
                 THEN /\ SetCore(WriteCurrentTask(Core,
                              [task EXCEPT !.path = SomePath(path),
                                           !.default_speed = DefaultSpeed]))
                      /\ Return("follow_path")
                      /\ UNCHANGED goals
                 ELSE SendHoverGoal
    /\ UNCHANGED <<envVars, endofline,
                   followVars, sa_task_complete, status>>

HoverIterate ==
    /\ At("HOVER", "iterate")
    /\ IF iterate # "None"
       THEN goals' = cancel_goal(goals, "hover") /\ Return(iterate)
       ELSE Continue("iterate") /\ UNCHANGED goals
    /\ UNCHANGED <<envVars, endofline, coreVars,
                   followVars, sa_task_complete, status>>

GotoExecute ==
    /\ At("GOTO", "execute")
    /\ LET task == getCurrentTask(Core)
       IN IF task = NoTask \/ task.type \notin {"goto", "hover"}
          THEN Abort /\ UNCHANGED coreVars        \* returns None, or KeyError
          ELSE IF waypointReached(task.latitude, task.longitude)
               THEN /\ SetCore([Core EXCEPT !.pending_command = <<"next_task">>])
                    /\ Return("done")
          ELSE IF position = NoFix
               THEN Abort /\ UNCHANGED coreVars   \* p[0]: TypeError
          ELSE \E path \in PathsFromVehicle(Point(task.latitude, task.longitude)) :
                 IF Len(path) < 1 THEN Return("done") /\ UNCHANGED coreVars
                 ELSE /\ SetCore(WriteCurrentTask(Core,
                              [task EXCEPT !.path = SomePath(path),
                                           !.default_speed = DefaultSpeed]))
                      /\ Return("follow_path")
    /\ UNCHANGED <<envVars, endofline,
                   followVars, sa_task_complete, status, goals>>

\* MissionPlan.generatePaths(task): the tasks it can leave, and whether it raised.
generatePaths(task) ==
    LET waypoints == task.nav_objectives[task.current_nav_objective_index + 1].waypoints
        t1 == [task EXCEPT !.current_path = SomePath(waypoints), !.transit_path = NonePath]
    IN IF Len(waypoints) > 1
       THEN IF t1.do_transit
            THEN IF position = NoFix THEN {[task |-> t1, raised |-> TRUE]}   \* None > float
                 ELSE IF position # waypoints[1] /\ planner = "path_follower"
                      THEN {[task |-> [t1 EXCEPT !.transit_path =
                                          SomePath(Append(path, waypoints[1]))],
                             raised |-> FALSE] :
                               path \in PathsFromVehicle(PreStart(waypoints[1]))}
                      ELSE {[task |-> t1, raised |-> FALSE]}
            ELSE {[task |-> [t1 EXCEPT !.do_transit = TRUE], raised |-> FALSE]}
       ELSE {[task |-> t1, raised |-> FALSE]}

MissionPlanExecute ==
    /\ At("MISSIONPLAN", "execute")
    /\ IF current_task = None THEN Return("done") /\ UNCHANGED coreVars
       ELSE IF heap[current_task].type # "mission_plan"
            THEN Abort /\ UNCHANGED coreVars      \* KeyError
       ELSE
         LET t0 == heap[current_task]
             task == IF t0.current_nav_objective_index = NoneIdx
                     THEN [t0 EXCEPT !.current_nav_objective_index = 0] ELSE t0
             i == task.current_nav_objective_index
         IN IF i >= Len(task.nav_objectives)
            THEN /\ SetCore([Core EXCEPT
                        !.heap[current_task].current_nav_objective_index = NoneIdx,
                        !.pending_command = <<"next_task">>])
                 /\ Return("done")
            ELSE IF task.nav_objectives[i + 1].type = "SurveyArea"
                 THEN /\ SetCore([Core EXCEPT !.heap[current_task] = task])
                      /\ Return("survey_area")
            ELSE IF task.current_path.k \in {"absent", "none"}
                 THEN \E g \in generatePaths(task) :
                        /\ SetCore([Core EXCEPT !.heap[current_task] = g.task])
                        /\ IF g.raised THEN Abort ELSE Return("follow_path")
            ELSE /\ SetCore([Core EXCEPT !.heap[current_task] = task])
                 /\ Return("follow_path")
    /\ UNCHANGED <<envVars, endofline,
                   followVars, sa_task_complete, status, goals>>

\* The client FollowPath uses for the planner configured now, and the other.
follower_client == IF planner = "path_planner" THEN "path_planner" ELSE "path_follower"
other_client == IF planner = "path_planner" THEN "path_follower" ELSE "path_planner"

\* Whether FollowPath.execute finds the path it is to follow (lines 1178-1190).
HasPath(task) ==
    IF task.type = "mission_plan"
    THEN /\ task.transit_path.k # "absent"
         /\ (task.transit_path.k = "some" \/ task.current_path.k = "some")
    ELSE task.path.k = "some"

FollowPathExecute ==
    /\ At("FOLLOWPATH", "execute")
    /\ LET task == getCurrentTask(Core)
           local == [NoTask EXCEPT !.type = task.type,
                                   !.latitude = task.latitude,
                                   !.longitude = task.longitude]
       IN IF task = NoTask
          THEN Continue("iterate") /\ UNCHANGED <<fp_task, task_complete, status, goals>>
          ELSE IF ~HasPath(task)
               THEN Abort /\ UNCHANGED <<fp_task, task_complete, status, goals>>   \* KeyError, TypeError
          ELSE /\ task_complete' = FALSE
               /\ status' = NoStatus
               /\ \E up \in BOOLEAN :
                    IF ~up
                    THEN /\ goals' = cancel_goal(goals, other_client)
                         /\ Return("cancelled")
                         /\ UNCHANGED fp_task
                    ELSE /\ goals' = send_goal(cancel_goal(goals, other_client),
                                               follower_client)
                         /\ fp_task' = local
                         /\ Continue("iterate")
    /\ UNCHANGED <<envVars, endofline, coreVars, sa_task_complete>>

\* The local variable task ends with execute().
Leave(out) == Return(out) /\ fp_task' = NoTask

FollowPathIterate ==
    /\ At("FOLLOWPATH", "iterate")
    /\ IF iterate = "cancelled"
       THEN goals' = cancel_goal(goals, follower_client) /\ Leave("cancelled")
       ELSE IF iterate # "None" THEN Leave(iterate) /\ UNCHANGED goals
       ELSE Continue("sleep") /\ UNCHANGED <<goals, fp_task>>
    /\ UNCHANGED <<envVars, endofline, coreVars, task_complete, sa_task_complete, status>>

\* The rest of the loop body of FollowPath.execute, after iterate returned None.
FollowPathPost ==
    /\ At("FOLLOWPATH", "sleep")
    /\ IF fp_task = NoTask
       THEN Abort /\ UNCHANGED <<goals, fp_task>>             \* task['type']: TypeError
       ELSE IF task_complete
            THEN Leave(IF fp_task.type = "hover" THEN "hover" ELSE "done")
                 /\ UNCHANGED goals
       ELSE IF fp_task.type = "hover" /\ waypointReached(fp_task.latitude, fp_task.longitude)
            THEN goals' = cancel_goal(goals, follower_client) /\ Leave("hover")
       ELSE Continue("iterate") /\ UNCHANGED <<goals, fp_task>>
    /\ UNCHANGED <<envVars, endofline, coreVars, task_complete, sa_task_complete, status>>

\* A faulty LineEnded.execute, which steps over a line: += 2.
LineEndedExecuteSkippingALine ==
    /\ At("LINEENDED", "execute")
    /\ LET task == getCurrentTask(Core)
       IN IF task # NoTask /\ task.type = "mission_plan"
          THEN IF task.transit_path.k = "absent"
               THEN Abort /\ UNCHANGED <<coreVars, endofline>>           \* KeyError
               ELSE IF task.transit_path.k = "some"
                    THEN /\ SetCore([Core EXCEPT !.heap[current_task].transit_path = NonePath])
                         /\ endofline' = "transit"
                         /\ Return("mission_plan")
               ELSE IF task.current_nav_objective_index = NoneIdx
                    THEN /\ SetCore([Core EXCEPT !.heap[current_task].current_path = NonePath])
                         /\ Abort                                  \* None += 1
                         /\ UNCHANGED endofline
               ELSE /\ SetCore([Core EXCEPT
                           !.heap[current_task].current_path = NonePath,
                           !.heap[current_task].current_nav_objective_index = @ + 2])
                    /\ endofline' = "track"
                    /\ Return("mission_plan")
          ELSE /\ SetCore([Core EXCEPT !.pending_command = <<"next_task">>])
               /\ Return("next_item")
               /\ UNCHANGED endofline
    /\ UNCHANGED <<envVars,
                   followVars, sa_task_complete, status, goals>>

LineEndedExecute ==
    /\ At("LINEENDED", "execute")
    /\ LET task == getCurrentTask(Core)
       IN IF task # NoTask /\ task.type = "mission_plan"
          THEN IF task.transit_path.k = "absent"
               THEN Abort /\ UNCHANGED <<coreVars, endofline>>           \* KeyError
               ELSE IF task.transit_path.k = "some"
                    THEN /\ SetCore([Core EXCEPT !.heap[current_task].transit_path = NonePath])
                         /\ endofline' = "transit"
                         /\ Return("mission_plan")
               ELSE IF task.current_nav_objective_index = NoneIdx
                    THEN /\ SetCore([Core EXCEPT !.heap[current_task].current_path = NonePath])
                         /\ Abort                                  \* None += 1
                         /\ UNCHANGED endofline
               ELSE /\ SetCore([Core EXCEPT
                           !.heap[current_task].current_path = NonePath,
                           !.heap[current_task].current_nav_objective_index = @ + 1])
                    /\ endofline' = "track"
                    /\ Return("mission_plan")
          ELSE /\ SetCore([Core EXCEPT !.pending_command = <<"next_task">>])
               /\ Return("next_item")
               /\ UNCHANGED endofline
    /\ UNCHANGED <<envVars,
                   followVars, sa_task_complete, status, goals>>

\* Whether SurveyArea.execute finds the objective it is to survey (line 1298).
HasObjective(task) ==
    /\ task.type = "mission_plan"
    /\ task.current_nav_objective_index # NoneIdx
    /\ task.current_nav_objective_index < Len(task.nav_objectives)

SurveyAreaExecute ==
    /\ At("SURVEYAREA", "execute")
    /\ IF current_task = None
       THEN Continue("iterate") /\ UNCHANGED <<sa_task_complete, status, goals>>
       ELSE IF ~HasObjective(heap[current_task])
            THEN Abort /\ UNCHANGED <<sa_task_complete, status, goals>>
       ELSE /\ sa_task_complete' = FALSE
            /\ status' = NoStatus
            /\ \E up \in BOOLEAN :
                 IF ~up THEN Return("cancelled") /\ UNCHANGED goals
                 ELSE goals' = send_goal(goals, "survey_area") /\ Continue("iterate")
    /\ UNCHANGED <<envVars, endofline, coreVars,
                   followVars>>

SurveyAreaIterate ==
    /\ At("SURVEYAREA", "iterate")
    /\ IF iterate = "cancelled"
       THEN goals' = cancel_goal(goals, "survey_area") /\ Return("cancelled")
       ELSE IF iterate # "None" THEN Return(iterate) /\ UNCHANGED goals
       ELSE Continue("sleep") /\ UNCHANGED goals
    /\ UNCHANGED <<envVars, endofline, coreVars,
                   followVars, sa_task_complete, status>>

SurveyAreaPost ==
    /\ At("SURVEYAREA", "sleep")
    /\ IF sa_task_complete THEN Return("done") ELSE Continue("iterate")
    /\ UNCHANGED <<envVars, endofline, coreVars,
                   followVars, sa_task_complete, status, goals>>

Machine ==
    \/ PauseExecute
    \/ IdleIterate
    \/ IdlePost
    \/ NextTaskExecute
    \/ HoverExecute
    \/ HoverIterate
    \/ GotoExecute
    \/ MissionPlanExecute
    \/ FollowPathExecute
    \/ FollowPathIterate
    \/ FollowPathPost
    \/ LineEndedExecute
    \/ SurveyAreaExecute
    \/ SurveyAreaIterate
    \/ SurveyAreaPost

(***************************************************************************)
(* The callbacks, which run between the steps of the state machine while   *)
(* the node is alive.                                                      *)
(***************************************************************************)
Alive == state \notin {"exit", "aborted"} /\ ~shutdown

machineVars == <<state, phase, endofline>>

\* The operator (a command message, a reconfigure request, a shutdown) acts
\* while requests are left.
Request == budget > 0 /\ budget' = budget - 1

CommandCallback(msg) ==
    /\ Alive
    /\ Request
    /\ LET c == commandCallback(Core, msg, DefaultSpeed)
       IN Len(c.tasks) <= MaxTasks /\ SetCore(c)
    /\ UNCHANGED <<piloting_mode, configVars, position, shutdown, machineVars,
                   followVars, sa_task_complete, status, goals>>

pilotingModeCallback(mode) ==
    /\ Alive
    /\ piloting_mode' = mode
    /\ UNCHANGED <<coreVars, configVars, position, shutdown, budget, machineVars,
                   followVars, sa_task_complete, status, goals>>

reconfigure_callback(config) ==
    /\ Alive
    /\ Request
    /\ planner' = (IF config.planner = 0 THEN "path_follower" ELSE "path_planner")
    /\ done_behavior' = (IF config.done_behavior = 0 THEN "hover" ELSE "restart")
    /\ UNCHANGED <<piloting_mode, coreVars, position, shutdown, machineVars,
                   followVars, sa_task_complete, status, goals>>

\* A new odometry message: robot_nav reports another position.
OdomCallback(p) ==
    /\ Alive
    /\ position' = p
    /\ UNCHANGED <<piloting_mode, coreVars, configVars, shutdown, budget, machineVars,
                   followVars, sa_task_complete, status, goals>>

\* A faulty done callback, which takes only a success for a completed task.
callbackFollowerDoneOnSuccess(client) ==
    /\ Alive
    /\ goals[client]
    /\ goals' = [goals EXCEPT ![client] = FALSE]
    /\ \E reported \in Statuses :
         /\ status' = reported
         /\ task_complete' = (task_complete \/ reported = "SUCCEEDED")
    /\ UNCHANGED <<envVars, coreVars, machineVars,
                   fp_task, sa_task_complete>>

\* The follower or planner server ends the goal of its client.
callbackFollowerDone(client) ==
    /\ Alive
    /\ goals[client]
    /\ goals' = [goals EXCEPT ![client] = FALSE]
    /\ task_complete' = TRUE
    /\ \E reported \in Statuses : status' = reported
    /\ UNCHANGED <<envVars, coreVars, machineVars,
                   fp_task, sa_task_complete>>

survey_area_done_callback ==
    /\ Alive
    /\ goals["survey_area"]
    /\ goals' = [goals EXCEPT !["survey_area"] = FALSE]
    /\ sa_task_complete' = TRUE
    /\ \E reported \in Statuses : status' = reported
    /\ UNCHANGED <<envVars, coreVars, machineVars,
                   followVars>>

\* Hover.callbackDone only logs.
callbackDone ==
    /\ Alive
    /\ goals["hover"]
    /\ goals' = [goals EXCEPT !["hover"] = FALSE]
    /\ UNCHANGED <<envVars, coreVars, machineVars,
                   followVars, sa_task_complete, status>>

Shutdown ==
    /\ Alive
    /\ Request
    /\ shutdown' = TRUE
    /\ UNCHANGED <<piloting_mode, coreVars, configVars, position, machineVars,
                   followVars, sa_task_complete, status, goals>>

Configs == [planner : {0, 1}, done_behavior : {0, 1}]

\* The callbacks of the subscribers and of the action clients.
Callbacks ==
    \/ \E mode \in {"standby", "autonomous"} : pilotingModeCallback(mode)
    \/ \E p \in Locs : OdomCallback(p)
    \/ \E client \in {"path_follower", "path_planner"} : callbackFollowerDone(client)
    \/ survey_area_done_callback
    \/ callbackDone

Next ==
    \/ Machine
    \/ Callbacks
    \/ \E msg \in Messages : CommandCallback(msg)
    \/ \E config \in Configs : reconfigure_callback(config)
    \/ Shutdown

Spec == Init /\ [][Next]_vars

(***************************************************************************)
(* The override round trip: the operator replaces the tasks by a mission   *)
(* plan, then sends an override, then next_task, each at any time.         *)
(***************************************************************************)
RoundTrip ==
    <<{Msg(<<"replace_task", "mission_plan", "<json>">>, d) : d \in {DocPattern, DocArea}},
      {Msg(<<"override", "hover", "1", "2">>, <<>>),
       Msg(<<"override", "goto", "1", "1">>, <<>>)},
      {Msg(<<"next_task">>, <<>>)}>>

InitRoundTrip == Start(Len(RoundTrip))

RoundTripCommand ==
    /\ budget > 0
    /\ \E msg \in RoundTrip[Len(RoundTrip) - budget + 1] : CommandCallback(msg)

NextRoundTrip ==
    \/ Machine
    \/ Callbacks
    \/ RoundTripCommand

SpecRoundTrip == InitRoundTrip /\ [][NextRoundTrip]_vars

\* The operator sends the next message of a script: a sequence of sets of
\* messages, one of each set in turn.
Scripted(script) ==
    /\ budget > 0
    /\ \E msg \in script[Len(script) - budget + 1] : CommandCallback(msg)

(***************************************************************************)
(* Back and forth: the operator appends a plan to the empty task list (or  *)
(* sends an override instead), then sends prev_task, then next_task, each  *)
(* once the state machine has consumed the command before.                 *)
(***************************************************************************)
BackAndForth ==
    <<{Msg(<<"append_task", "mission_plan", "<json>">>, DocPattern),
       Msg(<<"append_task", "mission_plan", "<json>">>, DocArea),
       Msg(<<"override", "goto", "1", "1">>, <<>>)},
      {Msg(<<"prev_task">>, <<>>)},
      {Msg(<<"next_task">>, <<>>)}>>

InitBackAndForth == Start(Len(BackAndForth))

BackAndForthCommand == pending_command = NoCmd /\ Scripted(BackAndForth)

NextBackAndForth ==
    \/ Machine
    \/ Callbacks
    \/ BackAndForthCommand

SpecBackAndForth == InitBackAndForth /\ [][NextBackAndForth]_vars

(***************************************************************************)
(* Replanning: the operator gives the vehicle something to do (a plan or   *)
(* an override), then reconfigures the node, then sends next_task, each at *)
(* any time.                                                               *)
(***************************************************************************)
Replan ==
    {Msg(<<"append_task", "mission_plan", "<json>">>, DocPattern),
     Msg(<<"append_task", "mission_plan", "<json>">>, DocArea),
     Msg(<<"override", "goto", "1", "1">>, <<>>),
     Msg(<<"override", "hover", "1", "2">>, <<>>)}

InitReplan == Start(3)

ReplanCommand ==
    IF budget = 3 THEN \E msg \in Replan : CommandCallback(msg)
    ELSE budget = 1 /\ CommandCallback(Msg(<<"next_task">>, <<>>))

ReplanConfigure == budget = 2 /\ \E config \in Configs : reconfigure_callback(config)

NextReplan ==
    \/ Machine
    \/ Callbacks
    \/ ReplanCommand
    \/ ReplanConfigure

SpecReplan == InitReplan /\ [][NextReplan]_vars

(***************************************************************************)
(* Interleaving: the command callback runs on the subscriber's thread and  *)
(* nextTask on the state machine's, with no lock between them.  nextTask   *)
(* is run in two steps here: the branches, which read pending_command and  *)
(* act on it, and, where no branch returned, the closing                   *)
(* self.pending_command = None.  Between the two the slot is read by       *)
(* nobody, so it is shown empty.  The operator gives the vehicle something *)
(* to do and then sends one more command, each at any time.                *)
(***************************************************************************)
Interleaved ==
    <<{Msg(<<"replace_task", "mission_plan", "<json>">>, DocPattern),
       Msg(<<"replace_task", "mission_plan", "<json>">>, DocArea),
       Msg(<<"override", "goto", "1", "1">>, <<>>)},
      {Msg(<<"next_task">>, <<>>),
       Msg(<<"override", "hover", "1", "2">>, <<>>)}>>

InitInterleaved == Start(2)

\* nextTask returns from inside a branch (lines 618-619 and 626-628).
ReturnsEarly(c) ==
    \/ c.pending_command = <<"do_override">>
    \/ c.override_task # NoTask /\ c.pending_command = <<"next_task">>

\* NextTask.execute after nextTask has returned.
Dispatch(c) ==
    IF c.override_task # NoTask THEN Return(c.override_task.type)
    ELSE IF c.current_task # None THEN Return(c.heap[c.current_task].type)
    ELSE Return("idle")

NextTaskBranches ==
    /\ At("NEXTTASK", "execute")
    /\ LET r == nextTask(Core, done_behavior, position)
       IN /\ SetCore(r.core)
          /\ IF r.raised THEN Abort
             ELSE IF ReturnsEarly(Core) THEN Dispatch(r.core)
             ELSE Continue("clear")
    /\ UNCHANGED <<envVars, endofline,
                   followVars, sa_task_complete, status, goals>>

NextTaskClear ==
    /\ At("NEXTTASK", "clear")
    /\ SetCore([Core EXCEPT !.pending_command = NoCmd])
    /\ Dispatch(Core)
    /\ UNCHANGED <<envVars, endofline,
                   followVars, sa_task_complete, status, goals>>

MachineInterleaved ==
    \/ PauseExecute
    \/ IdleIterate
    \/ IdlePost
    \/ NextTaskBranches
    \/ NextTaskClear
    \/ HoverExecute
    \/ HoverIterate
    \/ GotoExecute
    \/ MissionPlanExecute
    \/ FollowPathExecute
    \/ FollowPathIterate
    \/ FollowPathPost
    \/ LineEndedExecute
    \/ SurveyAreaExecute
    \/ SurveyAreaIterate
    \/ SurveyAreaPost

NextInterleaved ==
    \/ MachineInterleaved
    \/ Callbacks
    \/ Scripted(Interleaved)

SpecInterleaved == InitInterleaved /\ [][NextInterleaved]_vars

(***************************************************************************)
(* Clearing under an override: the operator replaces the tasks by a plan,  *)
(* sends an override, clears the task list and appends a plan, each at any *)
(* time.                                                                   *)
(***************************************************************************)
ClearMsg == Msg(<<"clear_tasks">>, <<>>)

Cleared ==
    <<{Msg(<<"replace_task", "mission_plan", "<json>">>, DocPattern),
       Msg(<<"replace_task", "mission_plan", "<json>">>, DocArea)},
      {Msg(<<"override", "goto", "1", "1">>, <<>>),
       Msg(<<"override", "hover", "1", "2">>, <<>>)},
      {ClearMsg},
      {Msg(<<"append_task", "mission_plan", "<json>">>, DocPattern)}>>

InitCleared == Start(4)

NextCleared ==
    \/ Machine
    \/ Callbacks
    \/ Scripted(Cleared)

SpecCleared == InitCleared /\ [][NextCleared]_vars

(***************************************************************************)
(* Expansion: the operator sends one mission plan, of any of the shapes    *)
(* parseMission tells apart (or sends an override instead), and the        *)
(* vehicle carries it out.                                                 *)
(***************************************************************************)
Line12 == TrackLine(<<L1, L2>>)
Line21 == TrackLine(<<L2, L1>>)
Area == SurveyAreaItem(<<Waypoint(L1), Waypoint(L2), Waypoint(L1)>>)

\* a Group in a Group
DocNested == <<Group(<<Line12, Group(<<Area>>)>>)>>
\* a SurveyArea with children that are no Waypoints, and items of other types
DocMixedArea ==
    <<SurveyAreaItem(<<Waypoint(L1), Line12, Group(<<SurveyPattern(<<Line21>>)>>)>>),
      Waypoint(L2), Item("Behavior", 0, <<>>, <<>>)>>
\* Platform items, one of them in a Group
DocSpeeds == <<Platform(2), Group(<<Platform(3), Line12>>), Line21>>
\* a SurveyArea without children, and nothing else that yields a task
DocBareArea == <<Group(<<>>), SurveyAreaItem(<<>>), Platform(2)>>

MissionDocs == {DocPattern, DocArea, DocNested, DocMixedArea, DocSpeeds, DocBareArea}

ExpansionMessages == {Msg(<<"replace_task", "mission_plan", "<json>">>, d) : d \in MissionDocs}

InitExpansion == Start(1)

ExpansionCommand ==
    \E msg \in ExpansionMessages \cup {Msg(<<"override", "goto", "1", "1">>, <<>>)} :
        CommandCallback(msg)

NextExpansion ==
    \/ Machine
    \/ Callbacks
    \/ ExpansionCommand

SpecExpansion == InitExpansion /\ [][NextExpansion]_vars

(***************************************************************************)
(* Progress: the operator sends one plan (or an override), the piloting    *)
(* mode becomes autonomous and stays so, and no other command arrives.     *)
(* The state machine thread keeps running, an action server that is asked  *)
(* again and again is reached in the end, and every goal sent is reported  *)
(* done in the end.                                                        *)
(***************************************************************************)
InitProgress == Start(1)

ProgressCommand ==
    \E msg \in {Msg(<<"replace_task", "mission_plan", "<json>">>, DocPattern),
                Msg(<<"replace_task", "mission_plan", "<json>">>, DocArea),
                Msg(<<"override", "goto", "1", "1">>, <<>>)} :
        CommandCallback(msg)

ProgressCallbacks ==
    \/ pilotingModeCallback("autonomous")
    \/ \E p \in Locs : OdomCallback(p)
    \/ \E client \in {"path_follower", "path_planner"} : callbackFollowerDone(client)
    \/ survey_area_done_callback
    \/ callbackDone

NextProgress ==
    \/ Machine
    \/ ProgressCallbacks
    \/ ProgressCommand

\* A state sends a goal: its action server answered wait_for_server.
GoalSent == Machine /\ \E client \in Clients : goals'[client] /\ ~goals[client]

FairProgress ==
    /\ WF_vars(Machine)
    /\ SF_vars(GoalSent)
    /\ \A client \in {"path_follower", "path_planner"} : WF_vars(callbackFollowerDone(client))
    /\ WF_vars(survey_area_done_callback)

SpecProgress == InitProgress /\ [][NextProgress]_vars /\ FairProgress

(***************************************************************************)
(* The properties checked.                                                 *)
(***************************************************************************)
ActiveGoals == {client \in Clients : goals[client]}

\* A step of the operator's: a command message (or reconfigure, shutdown).
OperatorStep == budget' # budget

\* C1: with an empty task list, no override and no pending command, the
\* single command "append_task goto <lat> <lon>" makes the task enter tasks
\* (the first step of the run the claim describes: the task enters tasks,
\* becomes current_task, runs through Goto, FollowPath and LineEnded).
AppendGotoEntersTasks ==
    [][(CommandCallback(Msg(<<"append_task", "goto", "1", "1">>, <<>>))
          /\ tasks = <<>> /\ override_task = NoTask /\ pending_command = NoCmd)
        => Len(tasks') = 1]_vars

\* C2: in the Pause state no goal the executor sent is still uncancelled and
\* unfinished.
NoGoalInPause == state = "PAUSE" => ActiveGoals = {}

\* C4: from the instant an override command is accepted, saved_task is the
\* value current_task had at that moment.
OverrideSnapshotsCurrentTask ==
    [][(OperatorStep /\ override_task' # NoTask /\ pending_command' = <<"do_override">>)
        => saved_task' = current_task]_vars

\* C5: at most one backend goal is active at any time.
AtMostOneActiveGoal == Cardinality(ActiveGoals) <= 1

\* C6: in autonomous mode, a state that waits in its iterate loop (Idle,
\* Hover, FollowPath, SurveyArea) while a command is pending leaves to
\* NextTask, with that command still pending.
PendingCommandReachesNextTask ==
    [][(state \in {"IDLE", "HOVER", "FOLLOWPATH", "SURVEYAREA"}
          /\ phase \in {"iterate", "sleep"}
          /\ pending_command # NoCmd /\ piloting_mode = "autonomous" /\ ~shutdown
          /\ state' # state)
        => (state' = "NEXTTASK" /\ pending_command' = pending_command)]_vars

\* C7: after every completed call of nextTask (the NextTask state returns;
\* a call that raises aborts the machine) pending_command is None.
NextTaskClearsPending ==
    [][(state = "NEXTTASK" /\ state' \notin {"NEXTTASK", "aborted"})
        => pending_command' = NoCmd]_vars

\* C7 happens: the machine is in Goto for an override whose DoOverride, the
\* only command so far, NextTask has consumed.
OverrideConsumed ==
    /\ At("GOTO", "execute")
    /\ override_task # NoTask
    /\ budget = MaxRequests - 1
    /\ pending_command = NoCmd

\* The mission plans held in tasks or as current_task.
HeldPlans == {id \in (Range(tasks) \cup {current_task}) \ {None} :
                 heap[id].type = "mission_plan"}

\* C8 as stated: current_index is None or 0 <= current_index < number of
\* objectives.
IndexBelowLength ==
    \A id \in HeldPlans :
        \/ heap[id].current_nav_objective_index = NoneIdx
        \/ /\ 0 <= heap[id].current_nav_objective_index
           /\ heap[id].current_nav_objective_index < Len(heap[id].nav_objectives)

\* C8, amended: current_index is None or 0 <= current_index <= number of
\* objectives (equal on a fresh plan without objectives, and between
\* LineEnded's last increment and the next MissionPlan execution).
IndexWithinLength ==
    \A id \in HeldPlans :
        \/ heap[id].current_nav_objective_index = NoneIdx
        \/ /\ 0 <= heap[id].current_nav_objective_index
           /\ heap[id].current_nav_objective_index <= Len(heap[id].nav_objectives)

\* C8 happens: LineEnded has counted past the last objective of a plan.
IndexAtLength ==
    /\ At("MISSIONPLAN", "execute")
    /\ \E id \in HeldPlans :
         /\ Len(heap[id].nav_objectives) > 0
         /\ heap[id].current_nav_objective_index = Len(heap[id].nav_objectives)

\* C9 as stated: current_task is absent or an element of tasks.
CurrentTaskInTasks == current_task = None \/ current_task \in Range(tasks)

\* C9, amended: current_task is absent, an element of tasks, or a hover
\* that is no element of tasks (the one nextTask makes up past the end of
\* the list when done_behavior is hover).
CurrentTaskInTasksOrHover ==
    \/ current_task = None
    \/ current_task \in Range(tasks)
    \/ heap[current_task].type = "hover"

\* C9 happens: past the end of a non-empty list, current_task is the hover
\* nextTask made up.
CurrentTaskMadeUp ==
    /\ tasks # <<>>
    /\ current_task # None
    /\ current_task \notin Range(tasks)
    /\ heap[current_task].type = "hover"

IsPrefix(s, t) == Len(s) <= Len(t) /\ SubSeq(t, 1, Len(s)) = s

ClearOrReplace ==
    \E msg \in Messages :
        /\ msg.tokens # <<>>
        /\ msg.tokens[1] \in {"clear_tasks", "replace_task"}
        /\ CommandCallback(msg)

\* C10: no step other than a clear_tasks or replace_task command removes or
\* reorders elements of tasks: tasks stays a prefix of what it becomes.
TasksOnlyGrow == [][IsPrefix(tasks, tasks') \/ ClearOrReplace]_vars

\* C10 happens: a plan appended behind another is still there, in place,
\* when the state machine has run the first one to its end.
TasksKeptAfterCompletion ==
    /\ Len(tasks) = 2
    /\ current_task = tasks[2]
    /\ state \notin {"PAUSE", "IDLE", "NEXTTASK"}

\* The step is NextTask returning.
NextTaskReturns == state = "NEXTTASK" /\ state' \notin {"NEXTTASK", "aborted"}

\* nextTask consumes DoOverride while a mission plan is current_task: the
\* plan's current_path is invalidated and nothing else of it changes,
\* saved_task is that plan, and the machine runs the override.
OverrideConsumedOverPlan ==
    (NextTaskReturns /\ pending_command = <<"do_override">>
       /\ IsMissionPlan(Core, current_task))
    => /\ saved_task' = current_task
       /\ current_task' = current_task
       /\ heap'[current_task] = [heap[current_task] EXCEPT !.current_path = NonePath]
       /\ override_task' = override_task
       /\ state' = (IF override_task.type = "goto" THEN "GOTO" ELSE "HOVER")

\* While the override is installed, the states that run it leave saved_task
\* and the saved plan as they are, and never enter MissionPlan or SurveyArea.
OverrideRunsBesidePlan ==
    (override_task # NoTask /\ saved_task # None
       /\ state \notin {"NEXTTASK", "MISSIONPLAN", "SURVEYAREA"} /\ ~ClearOrReplace)
    => /\ saved_task' = saved_task
       /\ heap'[saved_task] = heap[saved_task]
       /\ state' \notin {"MISSIONPLAN", "SURVEYAREA"}

\* nextTask dismisses the override on next_task: current_task is the saved
\* plan again, unchanged, and the machine enters MissionPlan.
OverrideDismissedToPlan ==
    (NextTaskReturns /\ override_task # NoTask /\ pending_command = <<"next_task">>
       /\ IsMissionPlan(Core, saved_task))
    => /\ current_task' = saved_task
       /\ heap'[saved_task] = heap[saved_task]
       /\ override_task' = NoTask
       /\ pending_command' = NoCmd
       /\ state' = "MISSIONPLAN"

\* MissionPlan, finding no current_path, builds the path of the objective
\* current_index names and leaves current_index alone.
PlanRebuildsPath ==
    (state = "MISSIONPLAN" /\ state' = "FOLLOWPATH" /\ current_task # None
       /\ heap[current_task].current_path # AbsentPath
       /\ heap[current_task].current_path.k # "some"
       /\ heap[current_task].current_nav_objective_index # NoneIdx)
    => LET k == heap[current_task].current_nav_objective_index
       IN /\ heap'[current_task].current_nav_objective_index = k
          /\ heap'[current_task].current_path =
               SomePath(heap[current_task].nav_objectives[k + 1].waypoints)

\* C3: the override round trip.  A mission plan that is current_task with
\* current_index k when NextTask consumes an override has its current_path
\* invalidated and becomes saved_task, the machine runs the override, and
\* when next_task dismisses the override the plan is current_task again,
\* current_index still k and current_path absent, so that MissionPlan
\* rebuilds the path of objective k.
OverrideRoundTrip ==
    [][/\ OverrideConsumedOverPlan
       /\ OverrideRunsBesidePlan
       /\ OverrideDismissedToPlan
       /\ PlanRebuildsPath]_vars

\* C3 happens: the three commands are spent, and the plan that had reached
\* objective 1 when the override took over is current_task again at
\* objective 1, its path rebuilt.
RoundTripDone ==
    /\ budget = 0
    /\ At("FOLLOWPATH", "execute")
    /\ override_task = NoTask
    /\ pending_command = NoCmd
    /\ current_task # None
    /\ saved_task = current_task
    /\ heap[current_task].current_nav_objective_index = 1
    /\ heap[current_task].current_path =
         SomePath(heap[current_task].nav_objectives[2].waypoints)

ClearTasksMsg == Msg(<<"clear_tasks">>, <<>>)

Processed(c, msg) == Collect(commandCallback(c, msg, DefaultSpeed))

\* C12: clear_tasks is idempotent: in every reachable state, processing two
\* clear_tasks commands in a row would leave the core (tasks, current_task,
\* saved_task, override_task, pending_command) as processing one would.
ClearTasksIdempotent ==
    Processed(Processed(Core, ClearTasksMsg), ClearTasksMsg)
        = Processed(Core, ClearTasksMsg)

\* C12 happens: clear_tasks was processed while the machine was following a
\* line of a plan, and the core is as a second clear_tasks would leave it.
ClearedWhileFollowing ==
    /\ budget = 0
    /\ state = "FOLLOWPATH"
    /\ fp_task.type = "mission_plan"
    /\ pending_command = NoCmd
    /\ tasks = <<>>
    /\ Processed(Core, ClearTasksMsg) = Core

\* C13: append_task X, making X the tail, followed by a consumed prev_task
\* and then a consumed next_task leaves current_task pointing to X.  Here X
\* is appended to the empty list: when nextTask consumes the next_task sent
\* after the prev_task was consumed, current_task is X afterwards.
AppendPrevNextAtTail ==
    [][(NextTaskReturns /\ budget = 0 /\ pending_command = <<"next_task">>
          /\ override_task = NoTask /\ Len(tasks) = 1 /\ current_task = tasks[1])
        => current_task' = tasks[1]]_vars

\* nextTask is to step past an end of the list: next_task with current_task
\* the last element, or prev_task with current_task the first.
StepsOffTheList ==
    /\ override_task = NoTask
    /\ Len(tasks) > 0
    /\ \/ pending_command = <<"next_task">> /\ current_task = tasks[Len(tasks)]
       \/ pending_command = <<"prev_task">> /\ current_task = tasks[1]

\* current_task is a hover at the vehicle's position that is not in tasks.
TransientHover ==
    /\ current_task' # None
    /\ current_task' \notin Range(tasks')
    /\ heap'[current_task'].type = "hover"
    /\ Point(heap'[current_task'].latitude, heap'[current_task'].longitude) = position

\* C14: when current_task is the last element of a non-empty tasks and
\* next_task is consumed (or the first and prev_task), then with
\* done_behavior restart current_task becomes tasks[0], and with hover it
\* becomes a transient hover at the vehicle's position, tasks unchanged.
StepOffTheListFollowsDoneBehavior ==
    [][(NextTaskReturns /\ StepsOffTheList)
        => /\ tasks' = tasks
           /\ done_behavior = "restart" => current_task' = tasks[1]
           /\ done_behavior = "hover" => TransientHover]_vars

\* The pending command is goto_line N or start_line N, and current_task, a
\* mission plan, is the task in force.
LinePending ==
    /\ override_task = NoTask
    /\ IsMissionPlan(Core, current_task)
    /\ Len(pending_command) = 2
    /\ pending_command[1] \in {"goto_line", "start_line"}

\* N names an objective of the plan.
LineInRange ==
    /\ IsInt(pending_command[2])
    /\ IntOf(pending_command[2]) >= 0
    /\ IntOf(pending_command[2]) < Len(heap[current_task].nav_objectives)

\* C15: with a mission plan as current task and a pending goto_line N or
\* start_line N whose N is out of range or not an integer, the NextTask
\* state does not abort the machine: nextTask leaves the plan as it is and
\* clears pending_command.
BadLineLeavesPlan ==
    [][(state = "NEXTTASK" /\ state' # state /\ LinePending /\ ~LineInRange)
        => /\ state' # "aborted"
           /\ pending_command' = NoCmd
           /\ current_task' = current_task
           /\ heap'[current_task] = heap[current_task]]_vars

\* nextTask consumes goto_line N / start_line N with N in range: the plan's
\* current_index is N, its paths are invalidated, and do_transit is false
\* for goto_line and true for start_line.
LineCommandMovesPlan ==
    (NextTaskReturns /\ LinePending /\ LineInRange)
    => /\ current_task' = current_task
       /\ heap'[current_task].current_nav_objective_index = IntOf(pending_command[2])
       /\ heap'[current_task].current_path.k # "some"
       /\ heap'[current_task].transit_path.k # "some"
       /\ heap'[current_task].do_transit = (pending_command[1] = "start_line")

\* MissionPlan builds the path of an objective while do_transit is false:
\* the plan gets no transit_path, and do_transit is true again.
PathBuiltWithoutTransit ==
    (state = "MISSIONPLAN" /\ state' = "FOLLOWPATH" /\ IsMissionPlan(Core, current_task)
       /\ ~heap[current_task].do_transit
       /\ heap[current_task].current_path.k # "some")
    => /\ heap'[current_task].transit_path.k # "some"
       /\ heap'[current_task].do_transit

\* C16: with a mission plan as current task, a pending goto_line N or
\* start_line N with N in range makes nextTask set current_index = N,
\* invalidate the plan's paths and set do_transit (false for goto_line, true
\* for start_line); the path built next after goto_line has no
\* transit_path, and do_transit is true again for the objective after it.
LineCommandSetsTransit ==
    [][LineCommandMovesPlan /\ PathBuiltWithoutTransit]_vars

\* The mission plans in tasks after the step.
PlansInTasks == {id \in Range(tasks') : heap'[id].type = "mission_plan"}

\* C17: after NextTask consumes restart_mission with tasks non-empty, every
\* mission plan in tasks has current_index None and current_path and
\* transit_path cleared, and current_task is tasks[0].
RestartResetsEveryPlan ==
    [][(NextTaskReturns /\ pending_command = <<"restart_mission">> /\ Len(tasks) > 0)
        => /\ tasks' = tasks
           /\ current_task' = tasks[1]
           /\ \A id \in PlansInTasks :
                 /\ heap'[id].current_nav_objective_index = NoneIdx
                 /\ heap'[id].current_path.k # "some"
                 /\ heap'[id].transit_path.k # "some"]_vars

\* The state machine takes a step.
MachineStep == <<state, phase>>' # <<state, phase>>

\* The state NextTask dispatches a task of the given type to.
StateOf(type) ==
    CASE type = "mission_plan" -> "MISSIONPLAN"
      [] type = "hover" -> "HOVER"
      [] type = "goto" -> "GOTO"

\* FollowPath calls iterate while the piloting mode is not autonomous: the
\* machine enters Pause, the core untouched.
ModeLossPauses ==
    (At("FOLLOWPATH", "iterate") /\ MachineStep
       /\ piloting_mode # "autonomous" /\ ~shutdown)
    => state' = "PAUSE" /\ UNCHANGED coreVars

\* Pause is left only in autonomous mode (or at shutdown), for Idle.
PauseResumesToIdle ==
    (state = "PAUSE" /\ MachineStep)
    => /\ UNCHANGED coreVars
       /\ state' = (IF piloting_mode = "autonomous" THEN "IDLE" ELSE "exit")

\* Idle, still in autonomous mode, goes nowhere but to NextTask, and does
\* go there while there is a current task.
IdleGoesToNextTask ==
    (state = "IDLE" /\ MachineStep /\ piloting_mode = "autonomous" /\ ~shutdown)
    => /\ UNCHANGED coreVars
       /\ state' \in {"IDLE", "NEXTTASK"}
       /\ (phase = "sleep" /\ current_task # None) => state' = "NEXTTASK"

\* NextTask with no command pending dispatches current_task again, a
\* mission plan with the current_index it had.
NextTaskRedispatches ==
    (NextTaskReturns /\ pending_command = NoCmd /\ current_task # None)
    => /\ current_task' = current_task
       /\ tasks' = tasks
       /\ heap'[current_task].type = heap[current_task].type
       /\ heap'[current_task].current_nav_objective_index
            = heap[current_task].current_nav_objective_index
       /\ state' = StateOf(heap[current_task].type)

\* C18: mode loss and resume.  When the piloting mode is not autonomous at
\* FollowPath's iterate, iterate returns pause and the machine enters Pause;
\* back in autonomous mode the machine leaves Pause, passes through Idle
\* and NextTask, and NextTask, no command pending, dispatches the same
\* current_task, a mission plan at the current_index it had.
ModeLossAndResume ==
    [][/\ ModeLossPauses
       /\ PauseResumesToIdle
       /\ IdleGoesToNextTask
       /\ NextTaskRedispatches]_vars

\* C18 happens: no command since the plan was sent, and the machine is in
\* Idle, in autonomous mode again, with the plan it was following the
\* second line of when the mode was lost.
ResumedInIdle ==
    /\ budget = MaxRequests - 1
    /\ At("IDLE", "sleep")
    /\ piloting_mode = "autonomous"
    /\ pending_command = NoCmd
    /\ override_task = NoTask
    /\ IsMissionPlan(Core, current_task)
    /\ heap[current_task].current_nav_objective_index = 1
    /\ heap[current_task].current_path.k = "some"

\* The task in force is a goto.
GotoInForce == getCurrentTask(Core).type = "goto"

\* Goto, its target not reached, returns done: the path builder returned
\* an empty path.  No goal is sent and the task gets no path.
GotoWithoutPathIsDone ==
    (At("GOTO", "execute") /\ GotoInForce /\ state' = "NEXTTASK"
       /\ ~waypointReached(getCurrentTask(Core).latitude, getCurrentTask(Core).longitude))
    => UNCHANGED <<goals, coreVars>>

\* NextTask after such a Goto, no command having arrived: the goto is no
\* longer the task in force and Goto is not entered again.
NextTaskLeavesGoto ==
    (NextTaskReturns /\ GotoInForce /\ getCurrentTask(Core).path = AbsentPath
       /\ pending_command = NoCmd)
    => /\ state' # "GOTO"
       /\ override_task' = NoTask
       /\ current_task' = None \/ heap'[current_task'].type # "goto"

MalformedMessages ==
    {Msg(<<"dance">>, <<>>),
     Msg(<<"append_task">>, <<>>),
     Msg(<<"append_task", "goto">>, <<>>),
     Msg(<<"append_task", "mission_plan", "{">>, <<>>),
     Msg(<<"prepend_task", "goto">>, <<>>),
     Msg(<<"replace_task", "goto">>, <<>>),
     Msg(<<"override">>, <<>>),
     Msg(<<"override", "goto", "x", "1">>, <<>>)}

\* C20: a malformed command is dropped with the core state preserved:
\* tasks, current_task, saved_task, override_task and pending_command are
\* as they were, whatever the verb.
MalformedCommandDropped ==
    [][\A msg \in MalformedMessages : CommandCallback(msg) => UNCHANGED coreVars]_vars

PrependPlanMsg == Msg(<<"prepend_task", "mission_plan", "<json>">>, DocPattern)

\* The task dicts of a list of identifiers, in order.
Dicts(h, ids) == [i \in 1..Len(ids) |-> h[ids[i]]]

\* C21: prepend_task with a well-formed task string adds the parsed tasks at
\* the head: afterwards tasks is the parsed tasks followed by the previous
\* tasks in their order, and current_task is unchanged.
PrependAddsAtHead ==
    [][CommandCallback(PrependPlanMsg)
        => /\ Dicts(heap', tasks')
                = parseMission(PrependPlanMsg.json, DefaultSpeed) \o Dicts(heap, tasks)
           /\ current_task' = current_task]_vars

\* The replace_task commands of Messages whose task string is well-formed.
ReplaceMessages ==
    {msg \in Messages :
        /\ Len(msg.tokens) > 2
        /\ msg.tokens[1] = "replace_task"
        /\ msg.tokens[2] = "mission_plan" => msg.tokens[3] = "<json>"}

\* The tasks a well-formed task string stands for.
TasksOf(msg) ==
    IF msg.tokens[2] = "mission_plan" THEN parseMission(msg.json, DefaultSpeed)
    ELSE <<[NoTask EXCEPT !.type = msg.tokens[2],
                          !.latitude = FloatOf(msg.tokens[3]),
                          !.longitude = FloatOf(msg.tokens[4])]>>

\* replace_task clears current_task and saved_task, makes tasks the parsed
\* tasks and sets pending_command to next_task.
ReplaceInstallsTasks ==
    \A msg \in ReplaceMessages :
        CommandCallback(msg)
        => /\ Dicts(heap', tasks') = TasksOf(msg)
           /\ current_task' = None
           /\ saved_task' = None
           /\ pending_command' = <<"next_task">>

\* The NextTask transition that follows, override or not: current_task is
\* the first of the new tasks.
NextTaskStartsNewTasks ==
    (NextTaskReturns /\ pending_command = <<"next_task">> /\ current_task = None
       /\ saved_task = None /\ Len(tasks) > 0)
    => current_task' = tasks[1] /\ override_task' = NoTask

\* C22: replace_task with a well-formed task string clears tasks,
\* current_task and saved_task, makes tasks exactly the parsed tasks and
\* sets pending_command to next_task; after the next NextTask transition
\* current_task is the first of the new tasks, override or not.
ReplaceTaskStartsOver ==
    [][ReplaceInstallsTasks /\ NextTaskStartsNewTasks]_vars

\* The position of current_task in tasks, the dict itself: 0 when it is
\* none of them.
PositionOfCurrent ==
    IF current_task \in Range(tasks)
    THEN CHOOSE i \in 1..Len(tasks) : tasks[i] = current_task
    ELSE 0

\* current_task has stepped off the list: tasks[0] under restart, a task
\* outside the list under hover.
SteppedOff ==
    IF done_behavior = "restart" THEN current_task' = tasks[1]
    ELSE current_task' \notin Range(tasks)

\* C23: tasks are told apart by their position in the list, never by their
\* contents: with current_task the element at index i, a consumed next_task
\* makes the element at i+1 current (or steps off the end at the last
\* index), and prev_task the element at i-1.
StepsGoByPosition ==
    [][(NextTaskReturns /\ override_task = NoTask /\ PositionOfCurrent > 0
          /\ pending_command \in {<<"next_task">>, <<"prev_task">>})
        => LET i == PositionOfCurrent
               j == IF pending_command = <<"next_task">> THEN i + 1 ELSE i - 1
           IN /\ tasks' = tasks
              /\ IF j \in 1..Len(tasks) THEN current_task' = tasks[j] ELSE SteppedOff]_vars

\* A motion state finds its backend unreachable: execute() returns
\* cancelled, without a goal sent, while no command is pending.
BackendUnreachable ==
    /\ state \in {"FOLLOWPATH", "HOVER", "SURVEYAREA"}
    /\ phase = "execute"
    /\ pending_command = NoCmd
    /\ state' = "NEXTTASK"

\* The NextTask state, entered now, hands out the task in force now.
SameTaskAgain ==
    LET r == nextTask(Core, done_behavior, position)
    IN ~r.raised /\ getCurrentTask(r.core) = getCurrentTask(Core)

\* C24: nothing is retried by itself: when a motion state returns cancelled
\* because its backend is unreachable, no goal is sent, and with no command
\* pending the NextTask state that follows does not hand out the same task
\* again.
UnreachableBackendNotRetried ==
    [][BackendUnreachable => goals' \in {goals, cancel_goal(goals, other_client)}
                             /\ ~SameTaskAgain']_vars

\* The goal the active motion state sent is active no more.
OwnGoalCancelled ==
    CASE state = "HOVER" -> ~goals'["hover"]
      [] state = "SURVEYAREA" -> ~goals'["survey_area"]
      [] state = "FOLLOWPATH" -> ~goals'["path_follower"] /\ ~goals'["path_planner"]

\* C25: whenever a motion state (Hover, FollowPath, SurveyArea) that has
\* sent a goal leaves with outcome cancelled, the goal it sent is cancelled
\* by the time the machine is in NextTask, also when the planner
\* configuration changed after the goal was sent.
CancelledExitCancelsGoal ==
    [][(state \in {"HOVER", "FOLLOWPATH", "SURVEYAREA"}
          /\ phase \in {"iterate", "sleep"}
          /\ (state = "FOLLOWPATH" => fp_task # NoTask)
          /\ state' = "NEXTTASK")
        => OwnGoalCancelled]_vars

\* Whether parseMission goes into the children of the item.
Descends(item) ==
    \/ item.type = "Group"
    \/ item.type = "SurveyArea" /\ ~AllWaypoints(item.children)

\* The lists of items in a document: the document and, item by item, the
\* children parseMission goes into.
RECURSIVE ItemLists(_)
ItemLists(plan) ==
    {plan} \cup UNION {ItemLists(plan[i].children) : i \in {j \in 1..Len(plan) : Descends(plan[j])}}

\* The speeds a list of items can be expanded at.
Speeds == {DefaultSpeed} \cup {knots * KnotsToMps : knots \in {2, 3}}

\* The rolling speed at item i of a list expanded at speed.
RollingSpeed(plan, i, speed) ==
    LET platforms == {j \in 1..i : plan[j].type = "Platform"}
    IN IF platforms = {} THEN speed
       ELSE plan[CHOOSE j \in platforms : \A k \in platforms : k <= j].speed * KnotsToMps

RECURSIVE Concat(_)
Concat(seqs) == IF seqs = <<>> THEN <<>> ELSE Head(seqs) \o Concat(Tail(seqs))

\* What one item yields at the rolling speed.
Yield(item, speed) == parseMission(<<item>>, speed)

\* What the claim says one item yields.
YieldsAsStated(item, speed) ==
    CASE Descends(item) -> Yield(item, speed) = parseMission(item.children, speed)
      [] item.type \in {"SurveyArea", "TrackLine", "SurveyPattern"} ->
           Len(Yield(item, speed)) = 1 /\ Yield(item, speed)[1].type = "mission_plan"
      [] OTHER -> Yield(item, speed) = <<>>

\* A list of items yields what its items yield, in the order of the list.
Flattens(plan, speed) ==
    /\ parseMission(plan, speed) =
           Concat([i \in 1..Len(plan) |-> Yield(plan[i], RollingSpeed(plan, i, speed))])
    /\ \A i \in 1..Len(plan) : YieldsAsStated(plan[i], RollingSpeed(plan, i, speed))

\* C26: mission-plan expansion flattens in document order: the tasks a
\* mission_plan command installs are what the items of the document yield,
\* one after the other, where a Group (also one in a Group) and a SurveyArea
\* with a child that is no Waypoint yield what their children yield, a
\* SurveyArea of Waypoints, a TrackLine and a SurveyPattern yield one
\* MissionPlan each, and any other item yields nothing.
ExpansionFlattens ==
    [][\A msg \in ExpansionMessages :
          CommandCallback(msg)
          => /\ Dicts(heap', tasks') = parseMission(msg.json, DefaultSpeed)
             /\ \A plan \in ItemLists(msg.json) : \A speed \in Speeds :
                    Flattens(plan, speed)]_vars

\* C26 happens: the tasks are the two plans of the document with a Group in
\* a Group, the plan of the line before the plan of the area.
NestedGroupsExpanded ==
    /\ Len(tasks) = 2
    /\ heap[tasks[1]].nav_objectives = <<Line12>>
    /\ heap[tasks[2]].nav_objectives = <<Area>>

\* The items of a document that yield a task or set the speed, in the
\* order of the document.
RECURSIVE DocumentOrder(_)
DocumentOrder(plan) ==
    IF plan = <<>> THEN <<>>
    ELSE (IF Descends(Head(plan)) THEN DocumentOrder(Head(plan).children) ELSE <<Head(plan)>>)
         \o DocumentOrder(Tail(plan))

\* The speeds of the tasks of a list of items expanded at speed, where a
\* Platform item holds for the rest of its own list and for the children of
\* the items there.
RECURSIVE ScopedSpeeds(_, _)
ScopedSpeeds(plan, speed) ==
    IF plan = <<>> THEN <<>>
    ELSE LET item == Head(plan)
             rolling == IF item.type = "Platform" THEN item.speed * KnotsToMps ELSE speed
         IN (CASE Descends(item) -> ScopedSpeeds(item.children, rolling)
               [] item.type \in {"SurveyArea", "TrackLine", "SurveyPattern"} -> <<rolling>>
               [] OTHER -> <<>>)
            \o ScopedSpeeds(Tail(plan), rolling)

\* A task as parseMission leaves it, but for its speed and its index.
FreshPlan(task) ==
    /\ task.type = "mission_plan"
    /\ task.do_transit
    /\ task.current_path.k = "absent"
    /\ task.transit_path.k = "absent"

\* C27 as stated: every MissionPlan a mission_plan command produces carries
\* the speed of the latest Platform item before it in the document (the
\* default speed when there is none), do_transit = true, current_index =
\* None and no current_path or transit_path.
ExpandedPlansUnindexed ==
    [][\A msg \in ExpansionMessages :
          CommandCallback(msg)
          => LET made == Dicts(heap', tasks')
             IN /\ [i \in 1..Len(made) |-> made[i].default_speed]
                      = ScopedSpeeds(DocumentOrder(msg.json), DefaultSpeed)
                /\ \A i \in 1..Len(made) :
                      FreshPlan(made[i]) /\ made[i].current_nav_objective_index = NoneIdx]_vars

\* C27, amended: every MissionPlan a mission_plan command produces carries
\* the rolling speed at its item (the default speed, or that of the latest
\* Platform item before it in its own list of items, where the children of
\* a Group or SurveyArea start from the rolling speed at that item and a
\* Platform among them holds for them alone), do_transit = true,
\* current_index = 0 and no current_path or transit_path.
ExpandedPlansAtFirstObjective ==
    [][\A msg \in ExpansionMessages :
          CommandCallback(msg)
          => LET made == Dicts(heap', tasks')
             IN /\ [i \in 1..Len(made) |-> made[i].default_speed]
                      = ScopedSpeeds(msg.json, DefaultSpeed)
                /\ \A i \in 1..Len(made) :
                      FreshPlan(made[i]) /\ made[i].current_nav_objective_index = 0]_vars

\* C27 happens: the tasks are the two plans of the document with a Platform
\* item in a Group, the first at 3 knots and the second at 2 knots.
PlatformSpeedsExpanded ==
    /\ Len(tasks) = 2
    /\ heap[tasks[1]].default_speed = 3 * KnotsToMps
    /\ heap[tasks[2]].default_speed = 2 * KnotsToMps

\* Without a position fix, stepping off the task list under done_behavior
\* hover makes up no hover, and the machine goes on.
NoFixMakesUpNoHover ==
    (state = "NEXTTASK" /\ MachineStep /\ StepsOffTheList /\ done_behavior = "hover")
    => /\ state' # "aborted"
       /\ current_task' # None => heap'[current_task'].type # "hover"

\* Without a position fix, the MissionPlan state builds no transit path, and
\* the machine goes on.
NoFixBuildsNoTransit ==
    (state = "MISSIONPLAN" /\ MachineStep /\ IsMissionPlan(Core, current_task))
    => /\ state' # "aborted"
       /\ heap'[current_task].transit_path.k # "some"

\* C28: with no position fix, derived actions are suppressed rather than
\* failing: waypointReached is false, stepping off the task list with
\* done_behavior hover makes up no hover, the MissionPlan state builds no
\* transit path, and each time the state machine keeps running (it does not
\* abort).
NoFixSuppresses ==
    [][position = NoFix
        => /\ \A p \in Locs : ~waypointReached(p.latitude, p.longitude)
           /\ NoFixMakesUpNoHover
           /\ NoFixBuildsNoTransit]_vars

\* The task an override gives way to: saved_task, or tasks[0] when there is
\* no saved_task and tasks is not empty.
Restored == IF saved_task = None /\ Len(tasks) > 0 THEN tasks[1] ELSE saved_task

\* C29: whenever nextTask runs with an override installed and a pending
\* command other than do_override (or none), the override is dropped and
\* current_task is set to saved_task, or to tasks[0] when saved_task is
\* absent and tasks is not empty.  A pending next_task (or none) is consumed
\* with current_task left at the restored task; any other command then acts
\* from the restored task.  Afterwards override_task is absent.
OverrideDismissed ==
    [][(state = "NEXTTASK" /\ MachineStep
          /\ override_task # NoTask /\ pending_command # <<"do_override">>)
        => /\ override_task' = NoTask
           /\ IF pending_command \in {NoCmd, <<"next_task">>}
              THEN /\ NextTaskReturns
                   /\ current_task' = Restored
                   /\ pending_command' = NoCmd
                   /\ tasks' = tasks
              ELSE Core' = Collect(nextTask([Core EXCEPT !.override_task = NoTask,
                                                         !.current_task = Restored],
                                            done_behavior, position).core)]_vars

\* C29 happens: both requests are spent, the override that took over from
\* a plan is dismissed, and the plan saved is current_task again, handed to
\* the MissionPlan state.
OverrideGaveWayToSaved ==
    /\ budget = 0
    /\ At("MISSIONPLAN", "execute")
    /\ override_task = NoTask
    /\ pending_command = NoCmd
    /\ saved_task # None
    /\ current_task = saved_task

\* C30: after nextTask, the NextTask state goes to the state of the type of
\* override_task if an override is installed, else to the state of the type
\* of current_task, else to Idle, and getCurrentTask gives that state the
\* override if there is one, else current_task.  So when do_override is
\* consumed, the machine enters Goto or Hover for the override and
\* current_task stays what it was.
NextTaskDispatches ==
    [][NextTaskReturns
        => /\ IF override_task' # NoTask
              THEN /\ state' = StateOf(override_task'.type)
                   /\ getCurrentTask(Core)' = override_task'
              ELSE IF current_task' # None
              THEN /\ state' = StateOf(heap'[current_task'].type)
                   /\ getCurrentTask(Core)' = heap'[current_task']
              ELSE state' = "IDLE"
           /\ pending_command = <<"do_override">> /\ override_task # NoTask
                => /\ state' \in {"GOTO", "HOVER"}
                   /\ override_task' = override_task
                   /\ current_task' = current_task]_vars

\* C30 happens: do_override is consumed while a plan is current_task, and
\* the machine is in Hover for the override, the plan still current_task.
HoverOverrideDispatched ==
    /\ At("HOVER", "execute")
    /\ pending_command = NoCmd
    /\ override_task.type = "hover"
    /\ getCurrentTask(Core) = override_task
    /\ IsMissionPlan(Core, current_task)

\* A state calls iterate.
IterateCalled ==
    /\ state \in {"IDLE", "HOVER", "FOLLOWPATH", "SURVEYAREA"}
    /\ phase = "iterate"
    /\ MachineStep

\* C31: iterate decides in strict priority: shutdown gives exit, a mode
\* other than autonomous gives pause, a pending command gives cancelled,
\* anything else None (the state stays), and it changes none of tasks,
\* current_task, saved_task, override_task, pending_command.  So a command
\* pending when the mode is lost is still pending in Pause, and Pause keeps
\* it for the NextTask that follows the resume.
IterateDecidesByPriority ==
    [][/\ IterateCalled
          => /\ UNCHANGED coreVars
             /\ state' = (IF shutdown THEN "exit"
                          ELSE IF piloting_mode # "autonomous" THEN "PAUSE"
                          ELSE IF pending_command # NoCmd THEN "NEXTTASK"
                          ELSE state)
       /\ (state = "PAUSE" /\ MachineStep) => UNCHANGED coreVars
       /\ (state = "IDLE" /\ state' # "IDLE" /\ pending_command # NoCmd
             /\ piloting_mode = "autonomous" /\ ~shutdown)
          => state' = "NEXTTASK" /\ UNCHANGED coreVars]_vars

\* C31 happens: the machine is in Pause, out of autonomous mode, with a
\* command pending and the goal of the state it left still active.
PausedWithCommandPending ==
    /\ At("PAUSE", "execute")
    /\ piloting_mode # "autonomous"
    /\ pending_command = <<"next_task">>
    /\ current_task # None
    /\ ActiveGoals # {}

\* LineEnded runs for a mission plan.
LineEndedForPlan ==
    /\ state = "LINEENDED"
    /\ MachineStep
    /\ IsMissionPlan(Core, current_task)
    /\ override_task = NoTask

\* The MissionPlan state, entered after a transit with its plan still
\* current and no command pending, sends the vehicle down the line itself:
\* no second transit is built.
LineFollowsTransit ==
    (state = "MISSIONPLAN" /\ MachineStep /\ endofline = "transit"
       /\ IsMissionPlan(Core, current_task)
       /\ heap[current_task].transit_path.k = "none"
       /\ heap[current_task].current_path.k = "some")
    => /\ state' = "FOLLOWPATH"
       /\ heap'[current_task] = heap[current_task]

\* C32: LineEnded for a mission plan: if transit_path was in use it is
\* cleared, "transit" is published and current_index stays; otherwise
\* current_path is cleared, current_index grows by exactly one and "track"
\* is published; either way it returns mission_plan.  After a transit the
\* line itself is followed, so that "track" comes after "transit".  For
\* a task that is no mission plan LineEnded sets pending next_task and
\* returns next_item.
LineEndedSteps ==
    [][/\ LineEndedForPlan
          => LET plan == heap[current_task]
             IN /\ state' = "MISSIONPLAN"
                /\ tasks' = tasks /\ current_task' = current_task
                /\ pending_command' = pending_command
                /\ IF plan.transit_path.k = "some"
                   THEN /\ heap'[current_task] = [plan EXCEPT !.transit_path = NonePath]
                        /\ endofline' = "transit"
                   ELSE /\ heap'[current_task] =
                             [plan EXCEPT !.current_path = NonePath,
                                          !.current_nav_objective_index =
                                              plan.current_nav_objective_index + 1]
                        /\ plan.current_nav_objective_index # NoneIdx
                        /\ endofline' = "track"
       /\ (state = "LINEENDED" /\ MachineStep /\ ~LineEndedForPlan)
          => /\ state' = "NEXTTASK"
             /\ pending_command' = <<"next_task">>
             /\ endofline' = endofline
       /\ LineFollowsTransit]_vars

\* C32 happens: the transit to the second line of a plan is done:
\* "transit" is published, transit_path is cleared, current_index is still
\* 1 and the line itself is what FollowPath is handed next.
TransitEndedBeforeLine ==
    /\ At("FOLLOWPATH", "execute")
    /\ endofline = "transit"
    /\ IsMissionPlan(Core, current_task)
    /\ override_task = NoTask
    /\ heap[current_task].current_nav_objective_index = 1
    /\ heap[current_task].current_path.k = "some"
    /\ heap[current_task].transit_path.k = "none"

\* A plan of TrackLine objectives, current_task with no override.
LinesPlan ==
    /\ IsMissionPlan(Core, current_task)
    /\ override_task = NoTask
    /\ \A i \in 1..Len(heap[current_task].nav_objectives) :
          heap[current_task].nav_objectives[i].type = "TrackLine"

\* The MissionPlan state is entered for such a plan at its first objective,
\* the operator having nothing more to say.
PlanStarted ==
    /\ At("MISSIONPLAN", "execute")
    /\ LinesPlan
    /\ Len(heap[current_task].nav_objectives) > 0
    /\ heap[current_task].current_nav_objective_index \in {NoneIdx, 0}
    /\ pending_command = NoCmd
    /\ budget = 0

\* The plan is done and the machine has gone on to what comes after it:
\* with done_behavior hover and no other task, a hover that is not in tasks.
PlanLeft ==
    /\ state = "HOVER"
    /\ current_task # None
    /\ current_task \notin Range(tasks)
    /\ \A i \in 1..Len(tasks) : heap[tasks[i]].current_nav_objective_index = NoneIdx

\* The objective of the plan changes by one step forward only, and at the
\* end the MissionPlan state invalidates it, sets pending next_task and
\* returns done.
ObjectivesInOrder ==
    (LinesPlan /\ current_task' = current_task
       /\ heap'[current_task].current_nav_objective_index
            # heap[current_task].current_nav_objective_index)
    => LET n == Len(heap[current_task].nav_objectives)
           i == heap[current_task].current_nav_objective_index
           j == heap'[current_task].current_nav_objective_index
       IN \/ i = NoneIdx /\ j = 0
          \/ i \in 0..(n - 1) /\ j = i + 1 /\ state = "LINEENDED"
          \/ /\ i = n /\ j = NoneIdx /\ state = "MISSIONPLAN"
             /\ pending_command' = <<"next_task">> /\ state' = "NEXTTASK"

\* C33: in autonomous mode, with no commands arriving and every goal
\* reported done in the end, a plan of n TrackLine objectives follows the
\* objectives 0, 1, ..., n-1 in that order, each once; then the MissionPlan
\* state finds current_index past the end, invalidates it, sets pending
\* next_task and returns done, and the machine goes on to the next task.
PlanProgresses ==
    /\ [][ObjectivesInOrder]_vars
    /\ PlanStarted ~> PlanLeft

\* nextTask moves the current task or its current objective.
TaskMoved ==
    /\ NextTaskReturns
    /\ \/ pending_command \in {<<"next_task">>, <<"prev_task">>, <<"do_override">>}
       \/ pending_command = <<"restart_mission">> /\ Len(tasks) > 0
       \/ LinePending /\ LineInRange
       \/ override_task # NoTask

\* The task the move is about: the one set aside for an override, else the
\* one that is current after the move.
MovedTasks ==
    (IF pending_command = <<"do_override">> THEN {current_task} ELSE {current_task'}) \ {None}

\* C34: paths are derived state: every mutation that moves the current
\* objective or the current task (next_task, prev_task, restart_mission,
\* goto_line, start_line, do_override, the dismissal of an override) leaves
\* the task it is about without current_path, transit_path and path.
MovesInvalidatePaths ==
    [][TaskMoved
        => \A id \in MovedTasks :
              /\ heap'[id].current_path.k # "some"
              /\ heap'[id].transit_path.k # "some"
              /\ heap'[id].path.k # "some"]_vars

\* A backend ends its goal by itself: the goal is gone and the machine did not
\* move (the machine cancels goals only in steps that move it).
FollowerDone ==
    /\ \E client \in {"path_follower", "path_planner"} : goals[client] /\ ~goals'[client]
    /\ UNCHANGED <<state, phase>>

SurveyDone ==
    /\ goals["survey_area"] /\ ~goals'["survey_area"]
    /\ UNCHANGED <<state, phase>>

\* C35: a backend result that reports failure is treated like a success: the
\* done callback sets the completion flag whatever its status, FollowPath then
\* returns hover for a hover task and done otherwise, SurveyArea returns done,
\* and neither changes the core on the way.
FailureTreatedAsSuccess ==
    [][/\ FollowerDone => status' \in Statuses /\ task_complete' /\ UNCHANGED coreVars
       /\ SurveyDone => status' \in Statuses /\ sa_task_complete' /\ UNCHANGED coreVars
       /\ (At("FOLLOWPATH", "sleep") /\ MachineStep /\ task_complete /\ fp_task # NoTask)
             => /\ state' = (IF fp_task.type = "hover" THEN "HOVER" ELSE "LINEENDED")
                /\ UNCHANGED coreVars
       /\ (At("SURVEYAREA", "sleep") /\ MachineStep /\ sa_task_complete)
             => state' = "NEXTTASK" /\ UNCHANGED coreVars]_vars

\* FollowPath has returned done on a result that reported a failure.
FailureTakenAsDone ==
    /\ At("LINEENDED", "execute")
    /\ status = "ABORTED"
    /\ task_complete

\* FollowPath follows the path of a hover task.
HoverFollowed == state = "FOLLOWPATH" /\ fp_task # NoTask /\ fp_task.type = "hover"

LineEndedEntered == state' = "LINEENDED" /\ state # "LINEENDED"

\* C36: FollowPath never returns done for a hover task: on the done callback
\* it returns hover, and when the hover target is reached it cancels the
\* follower goal and returns hover; so LineEnded is never entered with a hover
\* task as the task in progress, and the Hover state never writes
\* pending_command.
HoverNeverDone ==
    [][/\ (HoverFollowed /\ state' # state) => state' # "LINEENDED"
       /\ (HoverFollowed /\ phase = "sleep" /\ MachineStep /\ task_complete)
             => state' = "HOVER"
       /\ (HoverFollowed /\ phase = "sleep" /\ MachineStep /\ ~task_complete
              /\ waypointReached(fp_task.latitude, fp_task.longitude))
             => /\ state' = "HOVER"
                /\ ~goals'["path_follower"]
                /\ ~goals'["path_planner"]
       /\ LineEndedEntered
             => getCurrentTask(Core') = NoTask \/ getCurrentTask(Core').type # "hover"
       /\ (state = "HOVER" /\ MachineStep) => pending_command' = pending_command]_vars

\* C37: a command is pending for at most one tick, in every state and mode:
\* the iterate tick that finds a command pending sends the machine to NextTask
\* (unless the node is shut down), and NextTask returns with the slot empty,
\* having applied the command that was written last.
CommandPendingOneTick ==
    [][/\ (IterateCalled /\ pending_command # NoCmd /\ ~shutdown) => state' = "NEXTTASK"
       /\ NextTaskReturns => pending_command' = NoCmd]_vars

\* C38: command callbacks are serialized with the state machine: the slot is
\* emptied only by nextTask's branches acting on the command in it, so a
\* command written after the branches is not erased by the closing
\* assignment, and NextTask goes to an override only in the step in which the
\* do_override branch has set saved_task for it.
CallbacksSerialized ==
    [][/\ (pending_command # NoCmd /\ pending_command' = NoCmd)
             => At("NEXTTASK", "execute")
       /\ (state = "NEXTTASK" /\ state' \notin {"NEXTTASK", "aborted"} /\ override_task' # NoTask)
             => /\ At("NEXTTASK", "execute")
                /\ pending_command = <<"do_override">>
                /\ saved_task' = current_task]_vars

\* The plan in progress stands at a SurveyArea objective.
AtSurveyObjective ==
    /\ IsMissionPlan(Core, current_task)
    /\ HasObjective(heap[current_task])
    /\ LET task == heap[current_task]
       IN task.nav_objectives[task.current_nav_objective_index + 1].type = "SurveyArea"

\* SurveyArea finds that the backend has reported done, nothing being pending.
SurveyReportedDone ==
    /\ At("SURVEYAREA", "sleep")
    /\ sa_task_complete
    /\ pending_command = NoCmd
    /\ AtSurveyObjective

\* SurveyArea is entered for the objective whose survey was reported done.
SameSurveyAgain ==
    /\ At("SURVEYAREA", "execute")
    /\ sa_task_complete
    /\ pending_command = NoCmd
    /\ AtSurveyObjective

\* C39: a mission plan makes progress past a SurveyArea objective: once the
\* backend has reported the survey done with no command pending, the same
\* objective is not surveyed again, and the plan comes to stand at another
\* objective or the machine at another task.
PlanPassesSurvey ==
    /\ []~SameSurveyAgain
    /\ SurveyReportedDone ~> ~AtSurveyObjective

\* The core refers to no dict that has left the task list: current_task and
\* saved_task are absent, in tasks, or a hover that nextTask made up (tasks
\* holds mission plans only).
NoRemovedTask ==
    \A id \in {current_task, saved_task} :
       id = None \/ id \in Range(tasks) \/ heap[id].type = "hover"

\* nextTask dismisses the override.
OverrideDismissedNow ==
    /\ NextTaskReturns
    /\ override_task # NoTask
    /\ override_task' = NoTask

\* C40: clear_tasks while an override is installed empties tasks, current_task
\* and saved_task and leaves the override and the running state alone; no
\* removed task is referred to afterwards, and the dismissal of the override
\* restores current_task to the first of the tasks as they are then, or to
\* absent when there are none.
ClearLeavesNoRemovedTask ==
    [][/\ (CommandCallback(ClearMsg) /\ override_task # NoTask)
             => /\ override_task' = override_task
                /\ tasks' = <<>> /\ current_task' = None /\ saved_task' = None
                /\ UNCHANGED <<state, phase, goals>>
       /\ NoRemovedTask'
       /\ (OverrideDismissedNow /\ saved_task = None /\ pending_command = <<"next_task">>)
             => current_task' = (IF tasks = <<>> THEN None ELSE tasks[1])]_vars

\* The override that was installed when the tasks were cleared has been
\* dismissed, and the plan appended since is the current task.
AppendedPlanAfterClearedOverride ==
    /\ budget = 0
    /\ override_task = NoTask
    /\ tasks # <<>>
    /\ current_task = tasks[1]
    /\ state = "MISSIONPLAN"

====
